---------------------------- MODULE Spec2Model ----------------------------
(***************************************************************************)
(* A model of the cassette engine (vcrmartin/cassette.py), its block-scope *)
(* lifecycle manager and the generic low-level connection interceptor      *)
(* (vcrmartin/stubs/__init__.py), against one cassette file path.          *)
(***************************************************************************)
EXTENDS Integers, Sequences, FiniteSets, TLC

(***************************************************************************)
(* Bounds of the model.                                                    *)
(***************************************************************************)
\* number of cassette scopes entered in one behaviour
MaxScopes == 2
\* number of request()/getresponse() cycles issued in one behaviour
MaxRequests == 2
\* number of interactions in the cassette file that exists before the run
MaxFile == 2
\* number of invocations of decorated callables in one behaviour
MaxInvocations == 2
\* number of request()/getresponse() cycles issued by the decorated callables
MaxCalls == 1

(***************************************************************************)
(* Data model: requests, response records, filters.                        *)
(***************************************************************************)
\* RecordMode enumeration
ONCE == "once"
ALL == "all"
NEW_EPISODES == "new_episodes"
NONE == "none"
RecordMode == {ONCE, ALL, NEW_EPISODES, NONE}

\* Python's None where a request is expected (a filter dropping a request)
None == [method |-> "None", uri |-> "None"]

\* Request(method, uri, ...): the requests a client issues; "/a?k=s" carries
\* a query parameter k with a secret value, "/b" is on an ignorable host
Uris == {"/a", "/a?k=s", "/b"}
Requests == [method : {"GET"}, uri : Uris]

\* response records {status, headers, body}; te: the headers hold
\* Transfer-Encoding: chunked
ResponseRecords == {[code |-> 200, te |-> FALSE, body |-> "x"],
                    [code |-> 200, te |-> TRUE, body |-> "y"]}

Interactions == [request : Requests, response : ResponseRecords]

\* the before_record_request functions a cassette is configured with: the
\* default (lambda x: x), and the composition of a query-parameter filter
\* removing k with an ignore-hosts filter returning None for the host of "/b"
RequestFilters == {"identity", "filter"}

\* Python's None where a response record is expected
NoResponse == [code |-> 0, te |-> FALSE, body |-> "None"]

\* the before_record_response functions a cassette is configured with: the
\* default (lambda x: x), one that replaces the body, one that returns None
ResponseFilters == {"identity", "redact", "drop"}

before_record_response(f, resp) ==
    CASE f = "identity" -> resp
      [] f = "redact" -> [resp EXCEPT !.body = "x"]
      [] f = "drop" -> NoResponse

before_record_request(f, r) ==
    CASE r = None -> None
      [] f = "identity" -> r
      [] f = "filter" -> IF r.uri = "/b" THEN None
                         ELSE IF r.uri = "/a?k=s" THEN [r EXCEPT !.uri = "/a"]
                         ELSE r
      \* a filter that is not idempotent: each call removes one component
      [] f = "strip" -> IF r.uri = "/a?k=s" THEN [r EXCEPT !.uri = "/a"]
                        ELSE [r EXCEPT !.uri = "/b"]

\* requests_match(r1, r2, match_on) with the default match_on = (uri, method):
\* every configured matcher agrees
requests_match(r1, r2) == r1.uri = r2.uri /\ r1.method = r2.method

\* the indices i..Len(data) of the stored requests that match r, in order
RECURSIVE SelectIdx(_, _, _)
SelectIdx(data, r, i) ==
    IF i > Len(data) THEN <<>>
    ELSE (IF requests_match(r, data[i].request) THEN <<i>> ELSE <<>>)
         \o SelectIdx(data, r, i + 1)

(***************************************************************************)
(* The Cassette object (vcrmartin/cassette.py).                            *)
(***************************************************************************)
\* Cassette.__init__: an empty cassette with its keyword arguments.
\* play_counts is a Counter: a function whose domain is the set of indices
\* that were played.  _played_interactions holds, for each play, the request
\* and the index of the stored response object it aliases.
CassetteInit(mode, repeats, drop, filter, rfilter) ==
    [record_mode |-> mode,
     allow_playback_repeats |-> repeats,
     drop_unused_requests |-> drop,
     filter |-> filter,
     response_filter |-> rfilter,
     data |-> <<>>,
     play_counts |-> [i \in {} |-> 0],
     dirty |-> FALSE,
     rewound |-> FALSE,
     old_interactions |-> <<>>,
     played_interactions |-> <<>>]

\* a slot of the heap that holds no Cassette object
NoCassette == [record_mode |-> "unallocated"]

\* Counter.__getitem__: a missing key counts 0
Count(c, i) == IF i \in DOMAIN c.play_counts THEN c.play_counts[i] ELSE 0

\* Cassette.__len__
len(c) == Len(c.data)

\* bool(cassette): the class defines __len__ and no __bool__
truthy(c) == len(c) # 0

\* Cassette.play_count
play_count(c) ==
    LET RECURSIVE Sum(_)
        Sum(S) == IF S = {} THEN 0
                  ELSE LET i == CHOOSE j \in S : TRUE
                       IN c.play_counts[i] + Sum(S \ {i})
    IN Sum(DOMAIN c.play_counts)

\* all_played as it would be if it compared the number of plays with len
all_played_by_sum(c) == play_count(c) = len(c)

\* Cassette.all_played: the Counter holds a key for every index played
all_played(c) == Cardinality(DOMAIN c.play_counts) = len(c)

\* write_protected as it would be without the test of the mode beside rewound
write_protected_any_mode(c) == c.rewound \/ c.record_mode = NONE

\* Cassette.write_protected
write_protected(c) ==
    (c.rewound /\ c.record_mode = ONCE) \/ c.record_mode = NONE

\* Cassette.filter_request
filter_request(c, r) == before_record_request(c.filter, r)

\* Cassette._responses: the indices of the stored interactions matching the
\* filtered request, in storage order
responses(c, r) == SelectIdx(c.data, before_record_request(c.filter, r), 1)

\* the eligible matches as they would be if repeats were never allowed
Eligible_once(c, r) ==
    SelectSeq(responses(c, r), LAMBDA i : Count(c, i) = 0)

\* the indices among matches that play_response / __contains__ accept
Eligible(c, r) ==
    SelectSeq(responses(c, r),
              LAMBDA i : Count(c, i) = 0 \/ c.allow_playback_repeats)

\* Cassette.__contains__
contains(c, r) == Eligible(c, r) # <<>>

\* can_play_response_for as it would be without the test of rewound
can_play_response_for_unrewound(c, r) ==
    LET request == before_record_request(c.filter, r)
    IN  /\ request # None
        /\ contains(c, request)
        /\ c.record_mode # ALL

\* Cassette.can_play_response_for
can_play_response_for(c, r) ==
    LET request == before_record_request(c.filter, r)
    IN  /\ request # None
        /\ contains(c, request)
        /\ c.record_mode # ALL
        /\ c.rewound

\* play_response as it would be if it took the last eligible match
play_index_last(c, r) == Eligible(c, r)[Len(Eligible(c, r))]

\* Cassette.play_response, when an eligible match exists: the index played
play_index(c, r) == Head(Eligible(c, r))

\* play_response as it would be if it marked every eligible match as played
play_response_every_match(c, r) ==
    [c EXCEPT
       !.play_counts = [i \in DOMAIN c.play_counts \cup {j \in 1..len(c) :
                                  \E k \in DOMAIN Eligible(c, r) : Eligible(c, r)[k] = j} |->
                           IF \E k \in DOMAIN Eligible(c, r) : Eligible(c, r)[k] = i
                           THEN Count(c, i) + 1 ELSE Count(c, i)],
       !.played_interactions = Append(@, [request |-> r, index |-> play_index(c, r)])]

\* Cassette.play_response, when an eligible match exists: the cassette after
play_response(c, r) ==
    LET index == play_index(c, r)
    IN  [c EXCEPT
           !.play_counts = [i \in DOMAIN c.play_counts \cup {index} |->
                               IF i = index THEN Count(c, i) + 1 ELSE Count(c, i)],
           !.played_interactions = Append(@, [request |-> r, index |-> index])]

\* rewind as it would be if it only forgot the counts of the first index
rewind_first_only(c) ==
    [c EXCEPT !.play_counts = [i \in DOMAIN c.play_counts \ {1} |-> c.play_counts[i]]]

\* Cassette.rewind: a new, empty Counter
rewind(c) == [c EXCEPT !.play_counts = [i \in {} |-> 0]]

\* append as it would be without the test of the filtered request
append_ignored_too(c, r, resp) ==
    [c EXCEPT !.data = Append(@, [request |-> before_record_request(c.filter, r),
                                  response |-> resp]),
              !.dirty = TRUE]

\* append as it would be if it stored the response as it was given
append_unfiltered_response(c, r, resp) ==
    LET request == before_record_request(c.filter, r)
    IN  IF request = None THEN c
        ELSE [c EXCEPT !.data = Append(@, [request |-> request, response |-> resp]),
                       !.dirty = TRUE]

\* Cassette.append: the stored response is a deep copy, so the stored pair
\* shares nothing with the caller's response
append(c, r, resp) ==
    LET request == before_record_request(c.filter, r)
        response == before_record_response(c.response_filter, resp)
    IN  IF request = None THEN c
        ELSE IF response = NoResponse THEN c
        ELSE [c EXCEPT !.data = Append(@, [request |-> request, response |-> response]),
                       !.dirty = TRUE]

(***************************************************************************)
(* The cassette file and the persister.                                    *)
(***************************************************************************)
\* the file at the cassette's path: missing, present but undecodable, or a
\* document with the parallel sequences requests / responses
MissingFile == [status |-> "missing", data |-> <<>>]
CorruptFile == [status |-> "corrupt", data |-> <<>>]

\* FilesystemPersister.save_cassette: the file holds the serialized dict
save_cassette(cassette_dict) == [status |-> "ok", data |-> cassette_dict]

\* Cassette._load
RECURSIVE LoadFrom(_, _, _)
LoadFrom(c, data, i) ==
    IF i > Len(data) THEN c
    ELSE LoadFrom([append(c, data[i].request, data[i].response) EXCEPT
                      !.old_interactions = Append(@, data[i])],
                  data, i + 1)

\* _load as it would be if it marked the cassette rewound on every path
_load_always_rewound(c, f) ==
    [(IF f.status = "ok" THEN LoadFrom(c, f.data, 1) ELSE c) EXCEPT
        !.dirty = FALSE, !.rewound = TRUE]

_load(c, f) ==
    IF f.status = "ok"
    THEN [LoadFrom(c, f.data, 1) EXCEPT !.dirty = FALSE, !.rewound = TRUE]
    ELSE c

\* Cassette.load
load(kw, f) ==
    _load(CassetteInit(kw.record_mode, kw.allow_playback_repeats,
                       kw.drop_unused_requests, kw.before_record_request,
                       kw.before_record_response), f)

\* Cassette._new_interactions
_new_interactions(c) ==
    SelectSeq(c.data,
              LAMBDA d : \A i \in 1..Len(c.old_interactions) :
                            ~requests_match(d.request, c.old_interactions[i].request))

\* Cassette._as_dict
_as_dict(c) == c.data

\* Cassette._build_used_interactions_dict
_build_used_interactions_dict(c) ==
    [i \in 1..Len(c.played_interactions) |->
        [request |-> c.played_interactions[i].request,
         response |-> c.data[c.played_interactions[i].index].response]]
    \o _new_interactions(c)

\* Cassette._save: does it take the drop-unused branch
SaveDrops(c) ==
    c.drop_unused_requests /\ Len(c.played_interactions) < Len(c.old_interactions)

\* Cassette._save: the dict it hands to the persister
SaveDict(c) == IF SaveDrops(c) THEN _build_used_interactions_dict(c) ELSE _as_dict(c)

\* _save as it would be if it wrote on every call
SaveWrites_always(c, force) == TRUE

\* Cassette._save: is the persister invoked
SaveWrites(c, force) == force \/ SaveDrops(c) \/ c.dirty


(***************************************************************************)
(* State.                                                                  *)
(***************************************************************************)
VARIABLES
    kwargs,            \* the keyword arguments given to Cassette.use
    file,              \* the cassette file at the path
    cassettes,         \* the Cassette objects, by the scope that loaded them
    nscopes,           \* how many scopes were entered
    current_cassette,  \* the ContextVar: 0 when unset, else a Cassette object
    cm,                \* the CassetteContextDecorator in use
    scope,             \* is the body of the with block running
    conn,              \* the VCRConnection and its real_connection
    nrequests,         \* how many request() calls were made
    result,            \* what the last operation returned or raised
    log,               \* the getresponse results of the current scope
    prevLog,           \* the log of the scope before
    binding,           \* the ContextVar current_cassette, by execution context
    invocations,       \* the invocations of decorated callables
    stacks,            \* by context, the invocations whose body is on the stack
    heap,              \* the Cassette objects the invocations loaded
    conns,             \* by context, the VCRConnection it uses
    modules,           \* the client libraries' patched attributes
    headers,           \* a HeadersDict
    document           \* what a serializer was given and what it produced

\* the variables of the scopes that run in several contexts
ctxvars == <<binding, invocations, stacks, heap, conns>>

\* the variables of the single block scope
blockvars == <<cassettes, nscopes, current_cassette, cm, scope, conn, result,
               log, prevLog>>

\* the variables of the patcher, of a HeadersDict and of the serializers
libvars == <<modules, headers, document>>

vars == <<kwargs, file, cassettes, nscopes, current_cassette, cm, scope, conn,
          nrequests, result, log, prevLog, ctxvars, libvars>>

ScopeIds == 1..MaxScopes

\* CassetteContextDecorator.__init__: no cassette, no token
NoToken == [set |-> FALSE, old |-> 0]
CmInit == [cassette |-> 0, token |-> NoToken]

\* VCRConnection.__init__ and the state of its real_connection: the request
\* the client issued last, the pending _vcr_request (None while the attribute
\* was never set), the request sent on the real connection that awaits its
\* response, and how many requests were sent on the real connection
ConnInit == [phase |-> "idle", issued |-> None, vcr_request |-> None,
             real_pending |-> None, real_sent |-> 0]

NoResult == [kind |-> "none", response |-> NoResponse]

\* every sequence over S of length at most n
SeqsUpTo(S, n) == UNION {[1..k -> S] : k \in 0..n}

\* the files that can exist at the path before the run
InitialFiles ==
    {MissingFile, CorruptFile}
    \cup {save_cassette(d) : d \in SeqsUpTo(Interactions, MaxFile)}

\* the keyword arguments of Cassette.use(**kwargs) that the model varies
Kwargs ==
    [record_mode : RecordMode,
     allow_playback_repeats : BOOLEAN,
     drop_unused_requests : BOOLEAN,
     before_record_request : RequestFilters,
     before_record_response : {"identity"},
     record_on_exception : BOOLEAN]

\* the execution contexts (two threads, or two tasks started side by side)
\* and the invocations of decorated callables
Contexts == {"main", "sibling"}
InvIds == 1..MaxInvocations

\* a decorated callable that was not invoked yet: no decorator instance
NoInvocation ==
    [state |-> "unused", kind |-> "none", ctx |-> "none", cassette |-> 0,
     token |-> NoToken, obj |-> 0]

\* no decorated callable was invoked, no context holds a binding
CtxIdle ==
    /\ binding = [c \in Contexts |-> 0]
    /\ invocations = [i \in InvIds |-> NoInvocation]
    /\ stacks = [c \in Contexts |-> <<>>]
    /\ heap = [i \in InvIds |-> NoCassette]
    /\ conns = [c \in Contexts |-> ConnInit]

\* no block scope was entered
BlockIdle ==
    /\ cassettes = [i \in ScopeIds |-> NoCassette]
    /\ nscopes = 0
    /\ current_cassette = 0
    /\ cm = CmInit
    /\ scope = "out"
    /\ conn = ConnInit
    /\ result = NoResult
    /\ log = <<>>
    /\ prevLog = <<>>

\* HeadersDict(): an empty _store, and no assignment was made
HeadersInit == [_store |-> <<>>, calls |-> <<>>]

\* build() was not called, the HeadersDict is empty, nothing was serialized
LibIdle ==
    /\ modules = [nbuilds |-> 0]
    /\ headers = HeadersInit
    /\ document = [state |-> "none"]

Init ==
    /\ kwargs \in Kwargs
    /\ file \in InitialFiles
    /\ nrequests = 0
    /\ BlockIdle
    /\ CtxIdle
    /\ LibIdle

(***************************************************************************)
(* The lifecycle manager (CassetteContextDecorator).                       *)
(***************************************************************************)
\* ContextVar.reset(token)
reset(token) == token.old

\* CassetteContextDecorator.__enter__: load a new Cassette, make it current.
\* Cassette objects that nothing refers to any more are collected.
\* A behaviour follows a path that had a file for one scope (the file stands
\* for the scopes before), and a path that had none for MaxScopes scopes.
EnterScope ==
    /\ scope = "out"
    /\ conn.phase = "idle"
    /\ nscopes < MaxScopes
    /\ nscopes > 0 => ~cassettes[nscopes].rewound
    /\ LET id == nscopes + 1
       IN  /\ cassettes' = [i \in ScopeIds |->
                               IF i = id THEN load(kwargs, file)
                               ELSE IF i = current_cassette THEN cassettes[i]
                               ELSE NoCassette]
           /\ cm' = [cassette |-> id,
                     token |-> [set |-> TRUE, old |-> current_cassette]]
           /\ current_cassette' = id
           /\ nscopes' = id
    /\ scope' = "in"
    /\ result' = NoResult
    /\ log' = <<>>
    /\ prevLog' = log
    /\ UNCHANGED <<kwargs, file, conn, nrequests>>
    /\ UNCHANGED <<ctxvars, libvars>>

\* __exit__ as it would be if it saved whatever escaped the block
ExitSaves_always(exception_was_raised) == TRUE

\* CassetteContextDecorator.__exit__: does it call Cassette._save
ExitSaves(exception_was_raised) ==
    kwargs.record_on_exception \/ ~exception_was_raised

\* CassetteContextDecorator.__exit__ returning normally: exc tells whether
\* an exception escaped the block (any(exc_info)); the result keeps it
ExitScope(exc) ==
    /\ scope = "in"
    /\ conn.phase = "idle"
    /\ LET c == cassettes[cm.cassette]
           saves == ExitSaves(exc)
           writes == saves /\ SaveWrites(c, FALSE)
       IN  /\ file' = IF writes THEN save_cassette(SaveDict(c)) ELSE file
           /\ cassettes' = [cassettes EXCEPT ![cm.cassette].dirty =
                               IF writes THEN FALSE ELSE @]
           /\ cm' = [cm EXCEPT !.cassette = IF saves THEN 0 ELSE @]
           /\ current_cassette' = IF cm.token.set THEN reset(cm.token)
                                  ELSE current_cassette
           /\ result' = [kind |-> IF writes THEN "saved" ELSE "not saved",
                         response |-> NoResponse, exc |-> exc]
    /\ scope' = "out"
    /\ UNCHANGED <<kwargs, nscopes, conn, nrequests, log, prevLog>>
    /\ UNCHANGED <<ctxvars, libvars>>

\* CassetteContextDecorator.__exit__ when persister.save_cassette raises
\* (the serializer rejects a body, the path cannot be written): the exception
\* leaves _save and __exit__ at that call
ExitScopeSaveFails(exc) ==
    /\ scope = "in"
    /\ conn.phase = "idle"
    /\ ExitSaves(exc)
    /\ SaveWrites(cassettes[cm.cassette], FALSE)
    /\ result' = [kind |-> "save failed", response |-> NoResponse, exc |-> exc]
    /\ scope' = "out"
    /\ UNCHANGED <<kwargs, file, cassettes, nscopes, current_cassette, cm, conn,
                   nrequests, log, prevLog>>
    /\ UNCHANGED <<ctxvars, libvars>>


(***************************************************************************)
(* The connection interceptor (VCRConnection).                             *)
(***************************************************************************)
\* VCRConnection.cassette is set and truthy: what _with_cassette and the
\* handlers test with "if self.cassette"
Intercepting ==
    /\ current_cassette # 0
    /\ truthy(cassettes[current_cassette])

\* VCRHTTPResponse.__init__: the response object handed to the caller; the
\* Transfer-Encoding header is deleted from the record it is built from
VCRHTTPResponse(recorded_response) == [recorded_response EXCEPT !.te = FALSE]

\* one more entry in the log of the scope
Logged(entry) == IF scope = "in" THEN Append(log, entry) ELSE log

\* VCRConnection.request(method, url) under _with_cassette
Request(r) ==
    /\ scope = "in"
    /\ conn.phase = "idle"
    /\ nrequests < MaxRequests
    /\ nrequests' = nrequests + 1
    /\ IF Intercepting
       THEN IF cassettes[current_cassette].record_mode = ALL
            THEN conn' = [conn EXCEPT !.phase = "requested", !.issued = r,
                                      !.vcr_request = r,
                                      !.real_pending = r,
                                      !.real_sent = @ + 1]
            ELSE conn' = [conn EXCEPT !.phase = "requested", !.issued = r,
                                      !.vcr_request = r]
       ELSE conn' = [conn EXCEPT !.phase = "requested", !.issued = r,
                                 !.real_pending = r,
                                 !.real_sent = @ + 1]
    /\ result' = NoResult
    /\ UNCHANGED <<kwargs, file, cassettes, nscopes, current_cassette, cm, scope,
                   log, prevLog>>
    /\ UNCHANGED <<ctxvars, libvars>>

\* the entry of the log for a getresponse
Entry(kind, response, index) ==
    [request |-> conn.issued, kind |-> kind, response |-> response, index |-> index]

\* getresponse when no truthy cassette is current: the real getresponse,
\* whose response object goes to the caller as it is (the log does not keep it)
GetResponsePassThrough(resp) ==
    IF conn.real_pending = None
    THEN /\ result' = [kind |-> "ResponseNotReady", response |-> NoResponse]
         /\ conn' = [conn EXCEPT !.phase = "idle"]
         /\ log' = Logged(Entry("ResponseNotReady", NoResponse, 0))
         /\ UNCHANGED cassettes
    ELSE /\ result' = [kind |-> "passthrough", response |-> resp]
         /\ conn' = [conn EXCEPT !.phase = "idle", !.real_pending = None]
         /\ log' = Logged(Entry("passthrough", NoResponse, 0))
         /\ UNCHANGED cassettes

\* getresponse, the branch that plays a stored response: play_response, then
\* VCRHTTPResponse built from the stored response object itself
GetResponsePlay ==
    LET c == cassettes[current_cassette]
        index == play_index(c, conn.vcr_request)
        played == play_response(c, conn.vcr_request)
        response == VCRHTTPResponse(c.data[index].response)
    IN  /\ cassettes' = [cassettes EXCEPT ![current_cassette] =
                            [played EXCEPT !.data[index].response.te = FALSE]]
        /\ result' = [kind |-> "played", response |-> response]
        /\ conn' = [conn EXCEPT !.phase = "idle"]
        /\ log' = Logged(Entry("played", response, index))

\* getresponse, the branch that raises CannotOverwriteExistingCassetteException
GetResponseRaise ==
    /\ result' = [kind |-> "CannotOverwriteExistingCassetteException",
                  response |-> NoResponse]
    /\ conn' = [conn EXCEPT !.phase = "idle"]
    /\ log' = Logged(Entry("CannotOverwriteExistingCassetteException", NoResponse, 0))
    /\ UNCHANGED cassettes

\* getresponse, the branch that sends the request to the real server (unless
\* request() already did, in ALL mode), reads the real response, appends it to
\* the cassette and returns a VCRHTTPResponse built from the local record
GetResponseLive(resp) ==
    LET c == cassettes[current_cassette]
        sends == c.record_mode # ALL
    IN  IF ~sends /\ conn.real_pending = None
        THEN /\ result' = [kind |-> "ResponseNotReady", response |-> NoResponse]
             /\ conn' = [conn EXCEPT !.phase = "idle"]
             /\ log' = Logged(Entry("ResponseNotReady", NoResponse, 0))
             /\ UNCHANGED cassettes
        ELSE /\ cassettes' = [cassettes EXCEPT ![current_cassette] =
                                 append(c, conn.vcr_request, resp)]
             /\ result' = [kind |-> "live", response |-> VCRHTTPResponse(resp)]
             /\ conn' = [conn EXCEPT !.phase = "idle", !.real_pending = None,
                                     !.real_sent = IF sends THEN @ + 1 ELSE @]
             /\ log' = Logged(Entry("live", VCRHTTPResponse(resp), 0))

\* VCRConnection.getresponse under _with_cassette; resp is the response the
\* server gives if the real getresponse is called
GetResponse(resp) ==
    /\ conn.phase = "requested"
    /\ IF ~Intercepting
       THEN GetResponsePassThrough(resp)
       ELSE LET c == cassettes[current_cassette]
            IN  IF conn.vcr_request = None
                THEN /\ result' = [kind |-> "AttributeError", response |-> NoResponse]
                     /\ conn' = [conn EXCEPT !.phase = "idle"]
                     /\ log' = Logged(Entry("AttributeError", NoResponse, 0))
                     /\ UNCHANGED cassettes
                ELSE IF can_play_response_for(c, conn.vcr_request)
                THEN GetResponsePlay
                ELSE IF write_protected(c) /\ filter_request(c, conn.vcr_request) # None
                THEN GetResponseRaise
                ELSE GetResponseLive(resp)
    /\ UNCHANGED <<kwargs, file, nscopes, current_cassette, cm, scope, nrequests,
                   prevLog>>
    /\ UNCHANGED <<ctxvars, libvars>>

(***************************************************************************)
(* The specification.                                                      *)
(***************************************************************************)
Next ==
    \/ EnterScope
    \/ \E exc \in BOOLEAN : ExitScope(exc)
    \/ \E exc \in BOOLEAN : ExitScopeSaveFails(exc)
    \/ \E r \in Requests : Request(r)
    \/ \E resp \in ResponseRecords : GetResponse(resp)

Spec == Init /\ [][Next]_vars


(***************************************************************************)
(* Decorated callables in several execution contexts: every invocation     *)
(* clones the decorator (CassetteContextDecorator.__call__) and runs the   *)
(* body inside "with self as cassette"; a decorated generator enters the   *)
(* scope at its first pull and leaves it when its body completes.  The     *)
(* ContextVar current_cassette holds one value per execution context.      *)
(***************************************************************************)
\* ContextVar.set as it would be if the variable were one process-wide slot
ctx_set_process_wide(b, c, value) == [d \in Contexts |-> value]

\* ContextVar.set(value) run in context c
ctx_set(b, c, value) == [b EXCEPT ![c] = value]

\* ContextVar.reset(token) run in context c
ctx_reset(b, c, token) == [b EXCEPT ![c] = token.old]

\* Cassette.load as it would be if it handed out the cassette that is current
load_object_shared(c, i) == IF binding[c] # 0 THEN binding[c] ELSE i

\* Cassette.load for invocation i: cls(**kwargs) constructs a new object
load_object(c, i) == i

\* the invocation whose body context c is running (0: module-level code)
Top(c) == IF stacks[c] = <<>> THEN 0 ELSE stacks[c][Len(stacks[c])]

\* the next invocation: its clone of the decorator is constructed in __call__
NextInv == CHOOSE i \in InvIds :
              /\ invocations[i].state = "unused"
              /\ \A j \in InvIds : invocations[j].state = "unused" => i <= j

\* the scopes that were entered and not left
Entered(inv) == {i \in InvIds : inv[i].state \in {"running", "suspended"}}

\* the Cassette objects that a ContextVar, the frame of a scope or the token
\* of a scope (its old value) refers to; the others are collected
Collect(h, b, inv) ==
    [k \in InvIds |->
        IF \/ \E c \in Contexts : b[c] = k
           \/ \E i \in Entered(inv) : inv[i].obj = k \/ inv[i].token.old = k
        THEN h[k] ELSE NoCassette]

\* CassetteContextDecorator.__enter__ of invocation i run in context c, and
\* the body starting
Enter(c, i, kind) ==
    LET obj == load_object(c, i)
        b == ctx_set(binding, c, obj)
        inv == [invocations EXCEPT ![i] =
                   [state |-> "running", kind |-> kind, ctx |-> c, cassette |-> obj,
                    token |-> [set |-> TRUE, old |-> binding[c]], obj |-> obj]]
    IN  /\ binding' = b
        /\ invocations' = inv
        /\ heap' = Collect([heap EXCEPT ![obj] = load(kwargs, file)], b, inv)
        /\ stacks' = [stacks EXCEPT ![c] = Append(@, i)]

\* a decorated function is called in context c: __call__, _execute_function,
\* _handle_function up to the start of the body
InvokeFunction(c) ==
    /\ conns[c].phase = "idle"
    /\ \E i \in InvIds : invocations[i].state = "unused"
    /\ Enter(c, NextInv, "function")
    /\ UNCHANGED <<kwargs, file, nrequests, conns, blockvars, libvars>>

\* a decorated generator function is called in context c: _handle_generator
\* returns a generator object, none of its code has run
InvokeGenerator(c) ==
    /\ conns[c].phase = "idle"
    /\ \E i \in InvIds : invocations[i].state = "unused"
    /\ invocations' = [invocations EXCEPT ![NextInv] =
                          [NoInvocation EXCEPT !.state = "created",
                                               !.kind = "generator", !.ctx = c]]
    /\ UNCHANGED <<kwargs, file, nrequests, binding, stacks, heap, conns, blockvars, libvars>>

\* the code running in context c pulls the generator i it created: the first
\* pull runs __enter__ and starts the body, a later one resumes the body
Pull(c, i) ==
    /\ conns[c].phase = "idle"
    /\ invocations[i].kind = "generator"
    /\ invocations[i].ctx = c
    /\ invocations[i].state \in {"created", "suspended"}
    /\ IF invocations[i].state = "created"
       THEN Enter(c, i, "generator")
       ELSE /\ invocations' = [invocations EXCEPT ![i].state = "running"]
            /\ stacks' = [stacks EXCEPT ![c] = Append(@, i)]
            /\ UNCHANGED <<binding, heap>>
    /\ UNCHANGED <<kwargs, file, nrequests, conns, blockvars, libvars>>

\* the generator body running in context c yields: control is back in the
\* consumer, the with block of _handle_generator stays open
Yield(c) ==
    /\ conns[c].phase = "idle"
    /\ Top(c) # 0
    /\ invocations[Top(c)].kind = "generator"
    /\ invocations' = [invocations EXCEPT ![Top(c)].state = "suspended"]
    /\ stacks' = [stacks EXCEPT ![c] = SubSeq(@, 1, Len(@) - 1)]
    /\ UNCHANGED <<kwargs, file, nrequests, binding, heap, conns, blockvars, libvars>>

\* an invocation that has left its scope
Done(inv) ==
    [NoInvocation EXCEPT !.state = "done", !.kind = inv.kind, !.ctx = inv.ctx]

\* the body running in context c completes (exc: with an exception) and
\* CassetteContextDecorator.__exit__ returns normally
Return(c, exc) ==
    /\ conns[c].phase = "idle"
    /\ Top(c) # 0
    /\ LET i == Top(c)
           me == invocations[i]
           writes == ExitSaves(exc) /\ SaveWrites(heap[me.cassette], FALSE)
           b == IF me.token.set THEN ctx_reset(binding, c, me.token) ELSE binding
           inv == [invocations EXCEPT ![i] = Done(me)]
       IN  /\ file' = IF writes THEN save_cassette(SaveDict(heap[me.cassette]))
                      ELSE file
           /\ binding' = b
           /\ invocations' = inv
           /\ heap' = Collect([heap EXCEPT ![me.cassette].dirty =
                                  IF writes THEN FALSE ELSE @], b, inv)
    /\ stacks' = [stacks EXCEPT ![c] = SubSeq(@, 1, Len(@) - 1)]
    /\ UNCHANGED <<kwargs, nrequests, conns, blockvars, libvars>>

\* the body running in context c completes and persister.save_cassette
\* raises in __exit__: the exception leaves __exit__ at that call
ReturnSaveFails(c, exc) ==
    /\ conns[c].phase = "idle"
    /\ Top(c) # 0
    /\ ExitSaves(exc)
    /\ SaveWrites(heap[invocations[Top(c)].cassette], FALSE)
    /\ LET inv == [invocations EXCEPT ![Top(c)] = Done(invocations[Top(c)])]
       IN  /\ invocations' = inv
           /\ heap' = Collect(heap, binding, inv)
    /\ stacks' = [stacks EXCEPT ![c] = SubSeq(@, 1, Len(@) - 1)]
    /\ UNCHANGED <<kwargs, file, nrequests, binding, conns, blockvars, libvars>>

\* VCRConnection.cassette read in context c is set and truthy
CtxIntercepting(c) == binding[c] # 0 /\ truthy(heap[binding[c]])

\* VCRConnection.request(method, url) under _with_cassette: the connection
\* after the call
request(cn, intercepting, record_mode, r) ==
    IF intercepting
    THEN IF record_mode = ALL
         THEN [cn EXCEPT !.phase = "requested", !.issued = r, !.vcr_request = r,
                         !.real_pending = r, !.real_sent = @ + 1]
         ELSE [cn EXCEPT !.phase = "requested", !.issued = r, !.vcr_request = r]
    ELSE [cn EXCEPT !.phase = "requested", !.issued = r,
                    !.real_pending = r, !.real_sent = @ + 1]

\* VCRConnection.getresponse under _with_cassette: the connection and the
\* current cassette after the call
getresponse(cn, intercepting, c, resp) ==
    LET idle == [cn EXCEPT !.phase = "idle"]
        vr == cn.vcr_request
    IN  IF ~intercepting
        THEN [conn |-> [idle EXCEPT !.real_pending = None], cassette |-> c]
        ELSE IF vr = None
        THEN [conn |-> idle, cassette |-> c]
        ELSE IF can_play_response_for(c, vr)
        THEN [conn |-> idle,
              cassette |-> [play_response(c, vr) EXCEPT
                               !.data[play_index(c, vr)].response.te = FALSE]]
        ELSE IF write_protected(c) /\ filter_request(c, vr) # None
        THEN [conn |-> idle, cassette |-> c]
        ELSE IF c.record_mode = ALL /\ cn.real_pending = None
        THEN [conn |-> idle, cassette |-> c]
        ELSE [conn |-> [idle EXCEPT !.real_pending = None,
                                    !.real_sent = IF c.record_mode # ALL
                                                  THEN @ + 1 ELSE @],
              cassette |-> append(c, vr, resp)]

\* the code running in context c calls request on its connection
CtxRequest(c, r) ==
    /\ conns[c].phase = "idle"
    /\ nrequests < MaxCalls
    /\ nrequests' = nrequests + 1
    /\ conns' = [conns EXCEPT ![c] =
                    request(@, CtxIntercepting(c),
                            IF binding[c] # 0 THEN heap[binding[c]].record_mode
                            ELSE "unallocated", r)]
    /\ UNCHANGED <<kwargs, file, binding, invocations, stacks, heap, blockvars, libvars>>

\* the code running in context c calls getresponse on its connection
CtxGetResponse(c, resp) ==
    /\ conns[c].phase = "requested"
    /\ LET out == getresponse(conns[c], CtxIntercepting(c),
                              IF binding[c] # 0 THEN heap[binding[c]]
                              ELSE NoCassette, resp)
       IN  /\ conns' = [conns EXCEPT ![c] = out.conn]
           /\ heap' = IF binding[c] # 0
                      THEN [heap EXCEPT ![binding[c]] = out.cassette]
                      ELSE heap
    /\ UNCHANGED <<kwargs, file, nrequests, binding, invocations, stacks, blockvars, libvars>>

\* the requests and the server responses of the clients in the contexts
CtxRequests == {[method |-> "GET", uri |-> "/a"], [method |-> "GET", uri |-> "/b"]}
CtxResponses == {[code |-> 200, te |-> FALSE, body |-> "x"]}

\* the path holds a cassette with one interaction; the decorator is declared
\* with record mode new_episodes and the default filters
CtxInit ==
    /\ kwargs \in {k \in Kwargs :
                      /\ k.record_mode = NEW_EPISODES
                      /\ ~k.allow_playback_repeats
                      /\ ~k.drop_unused_requests
                      /\ k.before_record_request = "identity"}
    /\ file = save_cassette(<<[request |-> [method |-> "GET", uri |-> "/a"],
                                response |-> [code |-> 200, te |-> FALSE,
                                              body |-> "x"]]>>)
    /\ nrequests = 0
    /\ BlockIdle
    /\ CtxIdle
    /\ LibIdle

CtxNext ==
    \/ \E c \in Contexts : InvokeFunction(c)
    \/ \E c \in Contexts : InvokeGenerator(c)
    \/ \E c \in Contexts, i \in InvIds : Pull(c, i)
    \/ \E c \in Contexts : Yield(c)
    \/ \E c \in Contexts, exc \in BOOLEAN : Return(c, exc)
    \/ \E c \in Contexts, exc \in BOOLEAN : ReturnSaveFails(c, exc)
    \/ \E c \in Contexts, r \in CtxRequests : CtxRequest(c, r)
    \/ \E c \in Contexts, resp \in CtxResponses : CtxGetResponse(c, resp)

CtxSpec == CtxInit /\ [][CtxNext]_vars


(***************************************************************************)
(* Vocabulary of the properties.                                           *)
(***************************************************************************)
\* the cassette that is current
Cur == cassettes[current_cassette]

\* the body of a scope runs with that scope's cassette current
InScope == scope = "in" /\ current_cassette = cm.cassette

\* the configured before_record_request applied to r
Filtered(r) == before_record_request(kwargs.before_record_request, r)

\* the filter accepts r (r is not an ignored request)
Accepted(r) == Filtered(r) # None

\* the positions of the log whose request the filter accepts
AcceptedEntries == {i \in 1..Len(log) : Accepted(log[i].request)}

\* how many entries before position i, of a kind in kinds, carry a request
\* that the filter maps to the same request as entry i
Earlier(i, kinds) ==
    Cardinality({j \in 1..(i - 1) :
                    /\ Filtered(log[j].request) = Filtered(log[i].request)
                    /\ log[j].kind \in kinds})

AnyKind == {"played", "live", "passthrough", "ResponseNotReady", "AttributeError",
            "CannotOverwriteExistingCassetteException"}

\* the number of log entries of kind k
CountKind(k) == Cardinality({i \in 1..Len(log) : log[i].kind = k})

\* a step of the connection that starts a cycle, and one that ends it
RequestStep == conn.phase = "idle" /\ conn'.phase = "requested"
GetResponseStep == conn.phase = "requested" /\ conn'.phase = "idle"

(***************************************************************************)
(* C1.  With a write-protected current cassette and a pending request that *)
(* the filter accepts and that has no playable stored match, getresponse   *)
(* raises CannotOverwriteExistingCassetteException, and in the whole       *)
(* request/getresponse cycle nothing is sent on the real connection and    *)
(* the cassette (data, play counts, dirty) is unchanged; also for a        *)
(* cassette that holds zero interactions.                                  *)
(***************************************************************************)
C1_Case(r) ==
    /\ InScope
    /\ write_protected(Cur)
    /\ Accepted(r)
    /\ ~contains(Cur, r)

C1_WriteProtectedRaises ==
    [][/\ (RequestStep /\ C1_Case(conn'.issued))
            => (conn'.real_sent = conn.real_sent /\ cassettes' = cassettes)
       /\ (GetResponseStep /\ C1_Case(conn.issued))
            => /\ result'.kind = "CannotOverwriteExistingCassetteException"
               /\ conn'.real_sent = conn.real_sent
               /\ cassettes' = cassettes]_vars

(***************************************************************************)
(* C2.  A cassette is write-protected exactly when (it was loaded from a   *)
(* decodable existing file and its mode is ONCE) or its mode is NONE, from *)
(* its load on and for as long as the object lives: NEW_EPISODES and ALL   *)
(* cassettes are never write-protected, and neither is a ONCE cassette     *)
(* whose file was missing or undecodable at load.                          *)
(***************************************************************************)
C2_WriteProtected ==
    [][\A id \in ScopeIds :
          cassettes'[id] # NoCassette =>
             LET c == cassettes'[id]
             IN  /\ c.record_mode \in {NEW_EPISODES, ALL} => ~write_protected(c)
                 /\ IF cassettes[id] = NoCassette
                    THEN write_protected(c) <=>
                            \/ file.status = "ok" /\ c.record_mode = ONCE
                            \/ c.record_mode = NONE
                    ELSE write_protected(c) <=> write_protected(cassettes[id])]_vars

\* a ONCE cassette loaded from a missing or undecodable file is current
C2_Witness ==
    /\ InScope
    /\ Cur.record_mode = ONCE
    /\ file.status \in {"missing", "corrupt"}
    /\ ~write_protected(Cur)

(***************************************************************************)
(* C3.  Under record mode NONE a request through the connection against a  *)
(* nonexistent cassette path raises the write-protection error and makes   *)
(* no live call; against an existing cassette the recorded requests replay *)
(* (each stored interaction once, or again when repeats are allowed) and   *)
(* any further request raises the write-protection error.                  *)
(***************************************************************************)
\* what a write-protected cassette answers to entry i of the log
ProtectedAnswer(i) ==
    LET k == Len(responses(Cur, log[i].request))
    IN  IF Earlier(i, AnyKind) < k \/ (Cur.allow_playback_repeats /\ k > 0)
        THEN "played"
        ELSE "CannotOverwriteExistingCassetteException"

C3_NoneMode ==
    (InScope /\ Cur.record_mode = NONE) =>
        /\ \A i \in AcceptedEntries : log[i].kind = ProtectedAnswer(i)
        /\ ~Cur.rewound =>
              \A i \in AcceptedEntries :
                 log[i].kind = "CannotOverwriteExistingCassetteException"

(***************************************************************************)
(* C4.  In a scope whose cassette was not loaded from a file and whose     *)
(* mode is ONCE, NEW_EPISODES or ALL no request is played back: each       *)
(* request the filter accepts is sent live and appended, so after m such   *)
(* requests len(cassette) = m and play_count = 0.                          *)
(***************************************************************************)
C4_FreshScopeRecords ==
    (InScope /\ ~Cur.rewound /\ Cur.record_mode \in {ONCE, NEW_EPISODES, ALL}) =>
        /\ \A i \in AcceptedEntries : log[i].kind = "live"
        /\ len(Cur) = Cardinality(AcceptedEntries)
        /\ play_count(Cur) = 0

(***************************************************************************)
(* C5.  On a cassette loaded from an existing file, in ONCE or NONE mode   *)
(* without playback repeats, when k stored interactions match a request,   *)
(* its first k occurrences are replayed, each raising play_count by one,   *)
(* and occurrence k+1 raises the write-protection error.                   *)
(***************************************************************************)
C5_ReplayThenRaise ==
    (/\ InScope
     /\ Cur.rewound
     /\ Cur.record_mode \in {ONCE, NONE}
     /\ ~Cur.allow_playback_repeats) =>
        /\ \A i \in AcceptedEntries :
              LET k == Len(responses(Cur, log[i].request))
              IN  log[i].kind = IF Earlier(i, AnyKind) < k THEN "played"
                                ELSE "CannotOverwriteExistingCassetteException"
        /\ play_count(Cur) = CountKind("played")

(***************************************************************************)
(* C6.  When several stored interactions match the same incoming request,  *)
(* repeated requests within one scope are answered with the stored         *)
(* responses in recording order: the i-th replay among the requests that   *)
(* the filter maps to the same request receives the i-th matching stored   *)
(* response.  C6_OriginalOrder states it for every cassette, C6_ReplayOrder *)
(* for the cassettes that do not allow playback repeats.                   *)
(***************************************************************************)
\* entry i of the log, a replay, received the next matching stored response
InRecordingOrder(i) ==
    LET matches == responses(Cur, log[i].request)
        n == Earlier(i, {"played"}) + 1
    IN  /\ n <= Len(matches)
        /\ log[i].index = matches[n]
        /\ log[i].response = VCRHTTPResponse(Cur.data[matches[n]].response)

C6_OriginalOrder ==
    InScope =>
        \A i \in 1..Len(log) : log[i].kind = "played" => InRecordingOrder(i)

C6_ReplayOrder ==
    (InScope /\ ~Cur.allow_playback_repeats) =>
        \A i \in 1..Len(log) : log[i].kind = "played" => InRecordingOrder(i)

\* a second replay of one request received the second of two stored
\* responses that differ
C6_Witness ==
    /\ InScope
    /\ ~Cur.allow_playback_repeats
    /\ \E i \in 1..Len(log) :
          /\ log[i].kind = "played"
          /\ Earlier(i, {"played"}) = 1
          /\ LET matches == responses(Cur, log[i].request)
             IN  /\ Len(matches) >= 2
                 /\ log[i].index = matches[2]
                 /\ Cur.data[matches[1]].response.body
                       # Cur.data[matches[2]].response.body

(***************************************************************************)
(* C7.  Under record mode ALL, after any sequence of requests through the  *)
(* connection, play_count is 0 and every request the filter accepts was    *)
(* sent live and appended, whatever the file at the path held.             *)
(***************************************************************************)
C7_AllModeRecords ==
    (InScope /\ Cur.record_mode = ALL) =>
        /\ play_count(Cur) = 0
        /\ \A i \in AcceptedEntries : log[i].kind = "live"
        /\ len(Cur) = len(load(kwargs, file)) + Cardinality(AcceptedEntries)

(***************************************************************************)
(* C8.  A cassette saved with n interactions and reopened under            *)
(* NEW_EPISODES replays each request that has an unplayed stored match     *)
(* and appends nothing for it, sends every other request the filter        *)
(* accepts live and appends it, and after the scope's exit a load holds n  *)
(* plus the number of requests that went live.  (Stated for cassettes      *)
(* without playback repeats and without drop_unused_requests, and for      *)
(* exits that save.)                                                       *)
(***************************************************************************)
C8_Case ==
    /\ InScope
    /\ Cur.rewound
    /\ Cur.record_mode = NEW_EPISODES
    /\ ~Cur.allow_playback_repeats
    /\ ~Cur.drop_unused_requests
    /\ kwargs.record_on_exception

C8_NewEpisodesGrowth ==
    [][/\ (GetResponseStep /\ C8_Case /\ Accepted(conn.issued)) =>
             IF contains(Cur, conn.issued)
             THEN /\ result'.kind = "played"
                  /\ len(cassettes'[current_cassette]) = len(Cur)
             ELSE /\ result'.kind = "live"
                  /\ len(cassettes'[current_cassette]) = len(Cur) + 1
       /\ (C8_Case /\ scope' = "out" /\ result'.kind # "save failed") =>
             len(load(kwargs, file')) =
                len(load(kwargs, file))
                + Cardinality({i \in AcceptedEntries : log[i].kind = "live"})]_vars

(***************************************************************************)
(* C9.  After a request sequence was recorded under ONCE into a fresh      *)
(* path, a second scope on the path that issues the same sequence receives *)
(* for each request a response with the status, headers and body returned  *)
(* when recording, makes no live call, and ends with play_count equal to   *)
(* the number of requests replayed.  (Stated for cassettes without         *)
(* playback repeats whose first scope exited with a save.)                 *)
(***************************************************************************)
\* the second scope has issued a prefix of the sequence of the first
SameSequence ==
    /\ Len(log) <= Len(prevLog)
    /\ \A i \in 1..Len(log) : log[i].request = prevLog[i].request

C9_RecordThenReplay ==
    (/\ InScope
     /\ nscopes = 2
     /\ cm.token.old = 0
     /\ kwargs.record_mode = ONCE
     /\ kwargs.record_on_exception
     /\ ~kwargs.allow_playback_repeats
     /\ SameSequence) =>
        /\ \A i \in AcceptedEntries :
              /\ log[i].kind = "played"
              /\ log[i].response = prevLog[i].response
        /\ play_count(Cur) = Cardinality(AcceptedEntries)

(***************************************************************************)
(* C10.  However a cassette scope is left (normal completion, an exception *)
(* escaping the block, the save on exit failing), after __exit__ the       *)
(* current-cassette binding that the scope's __enter__ installed is no     *)
(* longer in effect.                                                       *)
(***************************************************************************)
C10_ExitClearsBinding ==
    (scope = "out" /\ nscopes > 0) => current_cassette # nscopes

(***************************************************************************)
(* Vocabulary of the properties about scopes in several contexts.          *)
(***************************************************************************)
\* a step in which invocation i enters its scope, and one in which it leaves
Enters(i) == invocations[i].obj = 0 /\ invocations'[i].obj # 0
Leaves(i) == invocations[i].state = "running" /\ invocations'[i].state = "done"

\* every decorated callable invoked in context c so far is a plain function,
\* so the scopes of c are entered and left in stack order
OnlyFunctions(c) ==
    \A i \in InvIds : invocations[i].ctx = c => invocations[i].kind = "function"

\* the cassette of the innermost scope open in context c after the step
InnermostAfter(c) ==
    IF stacks'[c] = <<>> THEN 0
    ELSE invocations'[stacks'[c][Len(stacks'[c])]].obj

(***************************************************************************)
(* C11.  When a scope is left, the current-cassette binding of its context *)
(* is the one that was in effect just before the scope was entered; when   *)
(* the scopes of a context are properly nested, leaving the inner scope    *)
(* makes the cassette of the enclosing scope current and leaving the       *)
(* outermost scope leaves no cassette current.                             *)
(***************************************************************************)
C11_ExitRestoresBinding ==
    [][\A i \in InvIds :
          Leaves(i) =>
             LET c == invocations[i].ctx
             IN  /\ binding'[c] = invocations[i].token.old
                 /\ OnlyFunctions(c) => binding'[c] = InnermostAfter(c)]_vars

(***************************************************************************)
(* C12.  Entering or leaving a scope in one execution context changes      *)
(* neither the cassette that the other context observes as current nor     *)
(* the state of that cassette, under every interleaving of the contexts'   *)
(* scope entries, intercepted calls and scope exits.                       *)
(***************************************************************************)
C12_SiblingUnaffected ==
    [][\A c, d \in Contexts :
          (c # d /\ stacks'[c] # stacks[c]) =>
             /\ binding'[d] = binding[d]
             /\ binding[d] # 0 => heap'[binding[d]] = heap[binding[d]]]_vars

\* the two contexts run scopes side by side, each with its own cassette
\* current, and an intercepted call of one of them is in flight
C12_Witness ==
    /\ binding["main"] # 0
    /\ binding["sibling"] # 0
    /\ binding["main"] # binding["sibling"]
    /\ stacks["main"] # <<>>
    /\ stacks["sibling"] # <<>>
    /\ conns["main"].phase = "requested"

(***************************************************************************)
(* C13.  Whenever the body of a decorated generator executes, from its     *)
(* first resumption to its completion, the current cassette of its context *)
(* is the cassette of that invocation, also when its pulls are interleaved *)
(* with other decorated generators or scopes of the same context.          *)
(***************************************************************************)
C13_GeneratorOwnCassette ==
    \A c \in Contexts :
       (Top(c) # 0 /\ invocations[Top(c)].kind = "generator") =>
          binding[c] = invocations[Top(c)].obj

(***************************************************************************)
(* C14.  Every invocation of a decorated callable, recursive and repeated  *)
(* ones included, enters its scope with a newly constructed Cassette that  *)
(* no other invocation and no context holds, in the state load gives it;   *)
(* a step changes the data, play counts or dirty flag of a cassette only   *)
(* when it is an intercepted call on that cassette or the exit of the      *)
(* invocation that owns it.                                                *)
(***************************************************************************)
C14_FreshIndependentCassette ==
    [][/\ \A i \in InvIds :
             Enters(i) =>
                LET k == invocations'[i].obj
                IN  /\ heap[k] = NoCassette
                    /\ \A j \in InvIds \ {i} : invocations[j].obj # k
                    /\ \A c \in Contexts : binding[c] # k
                    /\ heap'[k] = load(kwargs, file)
       /\ \A k \in InvIds :
             (heap[k] # NoCassette /\ heap'[k] # NoCassette /\ heap'[k] # heap[k]) =>
                \/ \E c \in Contexts : binding[c] = k /\ conns'[c] # conns[c]
                \/ \E i \in InvIds :
                      /\ Leaves(i)
                      /\ invocations[i].cassette = k
                      /\ heap'[k] = [heap[k] EXCEPT !.dirty = FALSE]]_vars

\* a decorated function called from its own body: the two invocations hold
\* cassettes in different states, the inner one has recorded
C14_Witness ==
    \E c \in Contexts :
       /\ Len(stacks[c]) = 2
       /\ invocations[stacks[c][1]].kind = "function"
       /\ invocations[stacks[c][2]].kind = "function"
       /\ invocations[stacks[c][1]].obj # invocations[stacks[c][2]].obj
       /\ heap[invocations[stacks[c][2]].obj].dirty
       /\ ~heap[invocations[stacks[c][1]].obj].dirty
       /\ len(heap[invocations[stacks[c][1]].obj]) = 1

(***************************************************************************)
(* Vocabulary of the properties about the exit of a scope.                 *)
(***************************************************************************)
\* a step that leaves the scope, and one that leaves it through _save
ExitStep == scope = "in" /\ scope' = "out"
SavingExit == ExitStep /\ (kwargs.record_on_exception \/ ~result'.exc)

\* the cassette as __enter__ loaded it (the file is not written in the scope)
Loaded == load(kwargs, file)

(***************************************************************************)
(* C15.  When record_on_exception is false and an exception escapes the    *)
(* scope, the exit does not invoke the persister and leaves the cassette   *)
(* file as it was; when record_on_exception is true or no exception        *)
(* escapes, the exit runs the save policy of _save.                        *)
(***************************************************************************)
C15_RecordOnException ==
    [][ExitStep =>
          IF ~kwargs.record_on_exception /\ result'.exc
          THEN result'.kind = "not saved" /\ file' = file
          ELSE \/ result'.kind = "save failed" /\ SaveWrites(Cur, FALSE)
               \/ /\ result'.kind = "saved" <=> SaveWrites(Cur, FALSE)
                  /\ result'.kind = "not saved" <=> ~SaveWrites(Cur, FALSE)
                  /\ file' = IF SaveWrites(Cur, FALSE)
                             THEN save_cassette(SaveDict(Cur)) ELSE file]_vars

\* an exception left a scope that had recorded, and nothing was written
C15_Witness ==
    /\ scope = "out"
    /\ nscopes > 0
    /\ ~kwargs.record_on_exception
    /\ result.kind = "not saved"
    /\ result.exc
    /\ cassettes[nscopes].dirty

(***************************************************************************)
(* C16.  With drop_unused_requests disabled, in a scope the cassette is    *)
(* dirty exactly when an interaction was appended since load; the exit     *)
(* invokes the persister if and only if the cassette is dirty; a scope     *)
(* that only replayed writes nothing; after a write dirty is false.        *)
(***************************************************************************)
C16_SaveOnlyIfDirty ==
    [][/\ scope' = "in" =>
             LET c == cassettes'[current_cassette']
             IN  c.dirty <=> len(c) > len(load(kwargs, file'))
       /\ (SavingExit /\ ~kwargs.drop_unused_requests) =>
             /\ result'.kind \in {"saved", "save failed"} <=> Cur.dirty
             /\ result'.kind = "saved" =>
                   /\ ~cassettes'[cm.cassette].dirty
                   /\ file' = save_cassette(Cur.data)
             /\ result'.kind # "saved" => file' = file
             /\ (\A i \in 1..Len(log) : log[i].kind = "played") =>
                   result'.kind = "not saved"]_vars

\* a scope that only replayed was left without a write
C16_Witness ==
    /\ scope = "out"
    /\ ~kwargs.drop_unused_requests
    /\ result.kind = "not saved"
    /\ ~result.exc
    /\ Len(log) > 0
    /\ \A i \in 1..Len(log) : log[i].kind = "played"

(***************************************************************************)
(* C17.  With drop_unused_requests enabled the interactions persisted      *)
(* after the exit of a scope are those played in the scope together with   *)
(* those recorded in the scope: an interaction loaded and never played is  *)
(* not persisted, every interaction recorded live is; with                 *)
(* drop_unused_requests disabled every stored interaction is persisted.    *)
(* (Stated for the identity filter, without playback repeats, for exits    *)
(* that save, and up to the headers of the responses.)                     *)
(***************************************************************************)
\* an interaction without the headers of its response
Essence(d) == [request |-> d.request, body |-> d.response.body]

\* how many interactions of the sequence s are v, up to headers
Copies(s, v) == Cardinality({k \in 1..Len(s) : Essence(s[k]) = v})

\* the stored interactions that were played, or appended after the load
PlayedOrRecorded(c, v) ==
    Cardinality({i \in 1..Len(c.data) :
                    /\ Essence(c.data[i]) = v
                    /\ Count(c, i) > 0 \/ i > len(Loaded)})

C17_DropUnused ==
    [][(/\ SavingExit
        /\ result'.kind # "save failed"
        /\ kwargs.before_record_request = "identity"
        /\ ~kwargs.allow_playback_repeats) =>
          \A d \in Interactions :
             Copies(file'.data, Essence(d)) =
                IF kwargs.drop_unused_requests
                THEN PlayedOrRecorded(Cur, Essence(d))
                ELSE Copies(Cur.data, Essence(d))]_vars

(***************************************************************************)
(* C18.  Every request in the stored interactions of a cassette, and every *)
(* request that a save writes to the cassette file, is an output of the    *)
(* before-record-request filter (never the request as the client sent it,  *)
(* with the filtered query parameter), whatever the configuration.         *)
(***************************************************************************)
\* the requests the configured filter can return
FilterOutputs == {Filtered(r) : r \in Requests} \ {None}

C18_OnlyFilteredRequests ==
    [][/\ scope' = "in" =>
             LET c == cassettes'[current_cassette']
             IN  \A i \in 1..len(c) : c.data[i].request \in FilterOutputs
       /\ (ExitStep /\ result'.kind = "saved") =>
             \A k \in 1..Len(file'.data) :
                file'.data[k].request \in FilterOutputs]_vars

(***************************************************************************)
(* C19.  A request that the before-record-request filter maps to None is   *)
(* sent to the real server and its real response returned; it is not       *)
(* recorded and not matched (the cassette, its length and its play counts  *)
(* are unchanged by the cycle), and it raises no write-protection error,   *)
(* also on a write-protected cassette.                                     *)
(***************************************************************************)
C19_IgnoredPassThrough ==
    [][/\ (RequestStep /\ InScope /\ ~Accepted(conn'.issued)) =>
             cassettes' = cassettes
       /\ (GetResponseStep /\ InScope /\ ~Accepted(conn.issued)) =>
             /\ result'.kind \in {"live", "passthrough"}
             /\ cassettes' = cassettes
             /\ conn'.real_pending = None
             /\ \/ conn.real_pending = conn.issued
                   /\ conn'.real_sent = conn.real_sent
                \/ conn.real_pending = None
                   /\ conn'.real_sent = conn.real_sent + 1]_vars

\* an ignored request went live on a write-protected cassette that holds
\* interactions
C19_Witness ==
    /\ InScope
    /\ conn.phase = "idle"
    /\ write_protected(Cur)
    /\ truthy(Cur)
    /\ Len(log) > 0
    /\ ~Accepted(log[Len(log)].request)
    /\ log[Len(log)].kind = "live"

(***************************************************************************)
(* C20.  __enter__ on a path whose file is missing or cannot be decoded    *)
(* raises nothing and yields an empty cassette with rewound false and      *)
(* dirty false, the same cassette for the two failures; in ONCE mode it is *)
(* not write-protected.                                                    *)
(***************************************************************************)
C20_FailedLoadIsEmpty ==
    [][(scope = "out" /\ scope' = "in" /\ file.status \in {"missing", "corrupt"}) =>
          LET c == cassettes'[current_cassette']
          IN  /\ result'.kind = "none"
              /\ len(c) = 0
              /\ play_count(c) = 0
              /\ ~c.rewound
              /\ ~c.dirty
              /\ c = load(kwargs, MissingFile)
              /\ c = load(kwargs, CorruptFile)
              /\ c.record_mode = ONCE => ~write_protected(c)]_vars

\* a ONCE scope runs on a file that could not be decoded
C20_Witness ==
    /\ InScope
    /\ file.status = "corrupt"
    /\ kwargs.record_mode = ONCE
    /\ len(Cur) = 0
    /\ ~Cur.rewound
    /\ ~Cur.dirty

(***************************************************************************)
(* C21.  On a cassette loaded from an existing file with                   *)
(* allow_playback_repeats, in a mode other than ALL, every occurrence of a *)
(* request that matches a stored interaction (one loaded from the file, or *)
(* one recorded earlier in the scope) is replayed with the first matching  *)
(* stored response, however often it was played; none raises the          *)
(* write-protection error or goes live.                                    *)
(***************************************************************************)
\* entry i of the log was issued when a stored interaction matched it
HadMatch(i) ==
    \/ responses(Loaded, log[i].request) # <<>>
    \/ \E j \in 1..(i - 1) :
          /\ Filtered(log[j].request) = Filtered(log[i].request)
          /\ log[j].kind = "live"

C22_InterceptsWhenCurrent ==
    (InScope /\ current_cassette # 0) =>
        \A i \in 1..Len(log) : log[i].kind # "passthrough"


(***************************************************************************)
(* The patcher (vcr/patch.py): CassettePatcherBuilder.build() replaces the *)
(* connection classes of the client libraries that can be imported, and a  *)
(* client then instantiates whatever class the attribute holds.  The       *)
(* environment has no tornado, aiohttp or httpx.                           *)
(***************************************************************************)
\* number of calls of build() in one behaviour
MaxBuilds == 2

\* the optional client libraries; requests is built on urllib3
Libraries == {"urllib3", "requests", "botocore", "httplib2"}
Environments == {e \in SUBSET Libraries : "requests" \in e => "urllib3" \in e}

\* what an attribute or a _baseclass can hold
Absent == [kind |-> "absent", name |-> "none"]
Genuine(n) == [kind |-> "genuine", name |-> n]
Interceptor(n) == [kind |-> "interceptor", name |-> n]
Mock == [kind |-> "mock", name |-> "Mock"]
Table == [kind |-> "dict", name |-> "SCHEME_TO_CONNECTION"]

\* the attributes build() patches, by the library that owns them
AttributesOf(l) ==
    CASE l = "httplib" -> {"httplib.HTTPConnection", "httplib.HTTPSConnection"}
      [] l = "urllib3" -> {"conn.VerifiedHTTPSConnection", "conn.HTTPConnection",
                           "conn.HTTPSConnection", "cpool.is_connection_dropped",
                           "HTTPConnectionPool.ConnectionCls",
                           "HTTPSConnectionPool.ConnectionCls"}
      [] l = "botocore" -> {"AWSHTTPConnectionPool.ConnectionCls",
                            "AWSHTTPSConnectionPool.ConnectionCls"}
      [] l = "httplib2" -> {"httplib2.HTTPConnectionWithTimeout",
                            "httplib2.HTTPSConnectionWithTimeout",
                            "httplib2.SCHEME_TO_CONNECTION"}
      [] OTHER -> {}
Attributes == UNION {AttributesOf(l) : l \in Libraries \cup {"httplib"}}

\* the keys of httplib2.SCHEME_TO_CONNECTION
Schemes == {"http", "https"}

\* the replacement classes, and the Mock that replaces is_connection_dropped
InterceptorNames ==
    {"VCRHTTPConnection", "VCRHTTPSConnection",
     "requests_stubs.VCRRequestsHTTPConnection",
     "requests_stubs.VCRRequestsHTTPSConnection",
     "urllib3_stubs.VCRRequestsHTTPConnection",
     "urllib3_stubs.VCRRequestsHTTPSConnection",
     "boto3_stubs.VCRRequestsHTTPConnection",
     "boto3_stubs.VCRRequestsHTTPSConnection",
     "VCRHTTPConnectionWithTimeout", "VCRHTTPSConnectionWithTimeout", "Mock"}

\* the modules as they are imported in environment e, before any build():
\* every attribute of an importable library holds the genuine implementation
\* and every replacement class has the _baseclass of its class statement
ModulesInit(e) ==
    [env |-> e,
     nbuilds |-> 0,
     attrs |-> [a \in Attributes |->
                   IF \E l \in e \cup {"httplib"} : a \in AttributesOf(l)
                   THEN (IF a = "httplib2.SCHEME_TO_CONNECTION" THEN Table
                         ELSE Genuine(a))
                   ELSE Absent],
     tables |-> [k \in Schemes |-> Genuine(k)],
     baseclass |-> [n \in InterceptorNames |-> Genuine(n)],
     made |-> Absent]

\* one mock triple (obj, patched_attribute, replacement_class)
Triple(a, replacement) == [attr |-> a, replacement |-> replacement]

\* CassettePatcherBuilder._httplib
_httplib ==
    <<Triple("httplib.HTTPConnection", Interceptor("VCRHTTPConnection")),
      Triple("httplib.HTTPSConnection", Interceptor("VCRHTTPSConnection"))>>

\* CassettePatcherBuilder._urllib3_patchers with the classes of a stubs module
_urllib3_patchers(stubs) ==
    LET VCRRequestsHTTPConnection == Interceptor(stubs \o ".VCRRequestsHTTPConnection")
        VCRRequestsHTTPSConnection == Interceptor(stubs \o ".VCRRequestsHTTPSConnection")
    IN  <<Triple("conn.VerifiedHTTPSConnection", VCRRequestsHTTPSConnection),
          Triple("conn.HTTPConnection", VCRRequestsHTTPConnection),
          Triple("conn.HTTPSConnection", VCRRequestsHTTPSConnection),
          Triple("cpool.is_connection_dropped", Mock),
          Triple("HTTPConnectionPool.ConnectionCls", VCRRequestsHTTPConnection),
          Triple("HTTPSConnectionPool.ConnectionCls", VCRRequestsHTTPSConnection)>>

\* CassettePatcherBuilder._requests
_requests(e) ==
    IF "requests" \in e THEN _urllib3_patchers("requests_stubs") ELSE <<>>

\* CassettePatcherBuilder._boto3
_boto3(e) ==
    IF "botocore" \in e
    THEN <<Triple("AWSHTTPConnectionPool.ConnectionCls",
                  Interceptor("boto3_stubs.VCRRequestsHTTPConnection")),
           Triple("AWSHTTPSConnectionPool.ConnectionCls",
                  Interceptor("boto3_stubs.VCRRequestsHTTPSConnection"))>>
    ELSE <<>>

\* CassettePatcherBuilder._urllib3
_urllib3(e) ==
    IF "urllib3" \in e THEN _urllib3_patchers("urllib3_stubs") ELSE <<>>

\* CassettePatcherBuilder._httplib2: the third triple carries a dict
_httplib2(e) ==
    IF "httplib2" \in e
    THEN <<Triple("httplib2.HTTPConnectionWithTimeout",
                  Interceptor("VCRHTTPConnectionWithTimeout")),
           Triple("httplib2.HTTPSConnectionWithTimeout",
                  Interceptor("VCRHTTPSConnectionWithTimeout")),
           Triple("httplib2.SCHEME_TO_CONNECTION", Table)>>
    ELSE <<>>

\* the dict of the SCHEME_TO_CONNECTION triple
SchemeReplacements ==
    [k \in Schemes |-> IF k = "http" THEN Interceptor("VCRHTTPConnectionWithTimeout")
                       ELSE Interceptor("VCRHTTPSConnectionWithTimeout")]

\* CassettePatcherBuilder._build_patcher
_build_patcher(m, t) ==
    IF m.attrs[t.attr] = Absent THEN m
    ELSE IF t.replacement.kind = "dict"
    THEN [m EXCEPT
            !.tables = [k \in Schemes |-> SchemeReplacements[k]],
            !.baseclass = [n \in InterceptorNames |->
                              IF \E k \in Schemes : SchemeReplacements[k].name = n
                              THEN m.tables[CHOOSE k \in Schemes :
                                               SchemeReplacements[k].name = n]
                              ELSE m.baseclass[n]]]
    ELSE [m EXCEPT !.attrs[t.attr] = t.replacement,
                   !.baseclass[t.replacement.name] = m.attrs[t.attr]]

\* CassettePatcherBuilder._build_patchers_from_mock_triples
RECURSIVE _build_patchers_from_mock_triples(_, _)
_build_patchers_from_mock_triples(m, mock_triples) ==
    IF mock_triples = <<>> THEN m
    ELSE _build_patchers_from_mock_triples(_build_patcher(m, Head(mock_triples)),
                                           Tail(mock_triples))

\* CassettePatcherBuilder.build
build(m) ==
    [_build_patchers_from_mock_triples(
         m, _httplib \o _requests(m.env) \o _boto3(m.env) \o _urllib3(m.env)
            \o _httplib2(m.env))
     EXCEPT !.nbuilds = @ + 1]

\* VCRConnection.__init__: real_connection = self._baseclass(...), which is
\* again VCRConnection.__init__ when _baseclass is a replacement class
RECURSIVE Instantiate(_, _, _)
Instantiate(m, class, layers) ==
    IF class.kind = "genuine"
    THEN [kind |-> "connection", name |-> class.name, layers |-> layers]
    ELSE IF layers > Cardinality(InterceptorNames)
    THEN [kind |-> "RecursionError", name |-> class.name, layers |-> layers]
    ELSE Instantiate(m, m.baseclass[class.name], layers + 1)

\* the module state a behaviour starts in: some libraries can be imported
PatchInit ==
    /\ modules \in {ModulesInit(e) : e \in Environments}
    /\ headers = HeadersInit
    /\ document = [state |-> "none"]
    /\ kwargs \in {k \in Kwargs :
                      /\ k.record_mode = ONCE
                      /\ ~k.allow_playback_repeats
                      /\ ~k.drop_unused_requests
                      /\ k.before_record_request = "identity"
                      /\ k.record_on_exception}
    /\ file = MissingFile
    /\ nrequests = 0
    /\ BlockIdle
    /\ CtxIdle

\* a call of CassettePatcherBuilder.build()
Build ==
    /\ modules.nbuilds < MaxBuilds
    /\ modules' = [build(modules) EXCEPT !.made = Absent]
    /\ UNCHANGED <<kwargs, file, nrequests, blockvars, ctxvars, headers, document>>

\* a client instantiates the connection class that attribute a holds
Construct(a) ==
    /\ modules.attrs[a].kind \in {"genuine", "interceptor"}
    /\ modules' = [modules EXCEPT
                      !.made = [attr |-> a,
                                instance |-> Instantiate(modules, modules.attrs[a], 0)]]
    /\ UNCHANGED <<kwargs, file, nrequests, blockvars, ctxvars, headers, document>>

PatchNext ==
    \/ Build
    \/ \E a \in Attributes : Construct(a)

PatchSpec == PatchInit /\ [][PatchNext]_vars

(***************************************************************************)
(* C23: calling build() again leaves the installed state as the first call *)
(* left it: every patched attribute holds its replacement, and every       *)
(* replacement's _baseclass is still a genuine implementation.             *)
(***************************************************************************)
C23_BuildIdempotent ==
    [][(modules.nbuilds >= 1 /\ modules'.nbuilds = modules.nbuilds + 1) =>
          /\ modules'.attrs = modules.attrs
          /\ modules'.tables = modules.tables
          /\ modules'.baseclass = modules.baseclass
          /\ \A n \in InterceptorNames \ {"Mock"} :
                modules'.baseclass[n].kind = "genuine"]_vars


(***************************************************************************)
(* The serializers (vcrmartin/serializers): a cassette dict whose response *)
(* bodies are byte strings is serialized to a text document by the JSON    *)
(* serializer or by the default YAML serializer, and read back.            *)
(***************************************************************************)
\* number of bytes in a body
MaxBody == 2
\* number of responses in a cassette dict
MaxResponses == 2

\* the bytes of the bodies: "A", the lead byte 0xC3, the continuation bytes
\* 0xA9 and 0x8C (b"\x8c" alone is the body of test_serialize_binary)
Bytes == {65, 195, 169, 140}
Bodies == SeqsUpTo(Bytes, MaxBody)

\* is a byte a UTF-8 continuation byte, a two-byte lead byte
IsContinuation(b) == b >= 128 /\ b < 192
IsLead(b) == b >= 192 /\ b < 224

\* bytes.decode("utf-8") from position i: the code points, or
\* <<-1>> where UnicodeDecodeError is raised
UnicodeDecodeError == <<-1>>
RECURSIVE decode(_, _)
decode(body, i) ==
    IF i > Len(body) THEN <<>>
    ELSE IF body[i] < 128
    THEN (LET rest == decode(body, i + 1)
          IN  IF rest = UnicodeDecodeError THEN rest ELSE <<body[i]>> \o rest)
    ELSE IF IsLead(body[i]) /\ i < Len(body) /\ IsContinuation(body[i + 1])
    THEN (LET rest == decode(body, i + 2)
          IN  IF rest = UnicodeDecodeError THEN rest
              ELSE <<(body[i] - 192) * 64 + (body[i + 1] - 128)>> \o rest)
    ELSE UnicodeDecodeError

\* decode with errors="replace": U+FFFD stands for every undecodable byte
RECURSIVE decode_replace(_, _)
decode_replace(body, i) ==
    IF i > Len(body) THEN <<>>
    ELSE IF body[i] < 128 THEN <<body[i]>> \o decode_replace(body, i + 1)
    ELSE IF IsLead(body[i]) /\ i < Len(body) /\ IsContinuation(body[i + 1])
    THEN <<(body[i] - 192) * 64 + (body[i + 1] - 128)>> \o decode_replace(body, i + 2)
    ELSE <<65533>> \o decode_replace(body, i + 1)

\* str.encode("utf-8") of code points below U+0800
RECURSIVE encode(_)
encode(text) ==
    IF text = <<>> THEN <<>>
    ELSE (IF Head(text) < 128 THEN <<Head(text)>>
          ELSE <<192 + (Head(text) \div 64), 128 + (Head(text) % 64)>>)
         \o encode(Tail(text))

\* the cassette dicts given to a serializer: their response bodies
CassetteDicts == UNION {[1..k -> Bodies] : k \in 1..MaxResponses}

\* what serialize returns: a text document, or the error it raises
SerializationError == [kind |-> "error", bodies |-> <<>>]
Text(bodies) == [kind |-> "text", bodies |-> bodies]

\* the JSON serializer as it would be if it replaced undecodable bytes
serialize_json_replacing(cassette_dict) ==
    Text([i \in DOMAIN cassette_dict |->
             [tag |-> "str", value |-> decode_replace(cassette_dict[i], 1)]])

\* jsonserializer.serialize: the bodies as JSON strings, an error when a
\* body is not text
serialize_json(cassette_dict) ==
    IF \E i \in DOMAIN cassette_dict : decode(cassette_dict[i], 1) = UnicodeDecodeError
    THEN SerializationError
    ELSE Text([i \in DOMAIN cassette_dict |->
                  [tag |-> "str", value |-> decode(cassette_dict[i], 1)]])

\* yamlserializer.serialize: a byte string is written as a binary scalar
serialize_yaml(cassette_dict) ==
    Text([i \in DOMAIN cassette_dict |->
             [tag |-> "binary", value |-> cassette_dict[i]]])

\* deserialize, then the bodies as the bytes a response carries
deserialize(text) ==
    [i \in DOMAIN text.bodies |->
        IF text.bodies[i].tag = "binary" THEN text.bodies[i].value
        ELSE encode(text.bodies[i].value)]

\* a cassette dict is about to be saved
SerializerInit ==
    /\ document \in {[state |-> "given", serializer |-> "none", cassette_dict |-> d,
                      output |-> SerializationError, read |-> <<>>] :
                        d \in CassetteDicts}
    /\ modules = [nbuilds |-> 0]
    /\ headers = HeadersInit
    /\ kwargs \in {k \in Kwargs :
                      /\ k.record_mode = ONCE
                      /\ ~k.allow_playback_repeats
                      /\ ~k.drop_unused_requests
                      /\ k.before_record_request = "identity"
                      /\ k.record_on_exception}
    /\ file = MissingFile
    /\ nrequests = 0
    /\ BlockIdle
    /\ CtxIdle

\* serialize(cassette_dict) with one of the two serializers
Serialize(serializer) ==
    /\ document.state = "given"
    /\ LET output == IF serializer = "json" THEN serialize_json(document.cassette_dict)
                     ELSE serialize_yaml(document.cassette_dict)
       IN  document' = [document EXCEPT
                           !.state = IF output = SerializationError THEN "raised"
                                     ELSE "serialized",
                           !.serializer = serializer,
                           !.output = output]
    /\ UNCHANGED <<kwargs, file, nrequests, blockvars, ctxvars, modules, headers>>

\* deserialize(text) of what was serialized
Deserialize ==
    /\ document.state = "serialized"
    /\ document' = [document EXCEPT !.state = "read",
                                    !.read = deserialize(document.output)]
    /\ UNCHANGED <<kwargs, file, nrequests, blockvars, ctxvars, modules, headers>>

SerializerNext ==
    \/ \E serializer \in {"json", "yaml"} : Serialize(serializer)
    \/ Deserialize

SerializerSpec == SerializerInit /\ [][SerializerNext]_vars

(***************************************************************************)
(* C24: the JSON serializer raises exactly when some body is not UTF-8     *)
(* text, and what it writes reads back as the same bytes; the YAML         *)
(* serializer never raises and reads back as the same bytes.               *)
(***************************************************************************)
\* the texts whose UTF-8 encoding fits a body: A, U+00CC and U+00E9
Utf8Texts == SeqsUpTo({65, 204, 233}, MaxBody)

C24_JsonRejectsBinary ==
    LET binary == \E i \in DOMAIN document.cassette_dict :
                     \A t \in Utf8Texts : encode(t) # document.cassette_dict[i]
    IN  /\ document.state \in {"raised", "serialized", "read"} =>
              /\ (document.state = "raised") = (document.serializer = "json" /\ binary)
        /\ document.state = "read" => document.read = document.cassette_dict

\* a cassette with the body b"\x8c" beside a text body was refused by JSON
C24_Witness ==
    /\ document.state = "raised"
    /\ document.serializer = "json"
    /\ \E i \in DOMAIN document.cassette_dict : document.cassette_dict[i] = <<140>>
    /\ \E i \in DOMAIN document.cassette_dict : document.cassette_dict[i] = <<195, 169>>


(***************************************************************************)
(* HeadersDict (vcrmartin/request.py): a case-insensitive mapping whose    *)
(* _store maps the lowercased key to the pair (key, value).                *)
(***************************************************************************)
\* number of assignments headers[key] = value in one behaviour
MaxAssignments == 3

\* the header names a client assigns, in several casings
HeaderNames == {"Content-Type", "CONTENT-TYPE", "content-type", "Accept"}

\* str.lower
lower(key) == IF key = "Accept" THEN "accept" ELSE "content-type"

\* the values a client assigns: a scalar, or a list or tuple of scalars
Scalars == {"a", "b"}
AssignedValues ==
    [type : {"str"}, scalar : Scalars, items : {<<>>}]
    \cup [type : {"list", "tuple"}, scalar : {"none"},
          items : {<<>>, <<"a", "b">>, <<"b">>}]

\* is value[0] an IndexError
IndexError(value) == value.type \in {"tuple", "list"} /\ value.items = <<>>

\* the value HeadersDict.__setitem__ stores
Kept(value) == IF value.type \in {"tuple", "list"} THEN value.items[1]
               ELSE value.scalar

\* CaseInsensitiveDict.__setitem__: _store[key.lower()] = (key, value); a
\* dict keeps the position of a key it already holds
super__setitem__(store, key, value) ==
    IF \E i \in DOMAIN store : store[i].lowered = lower(key)
    THEN [i \in DOMAIN store |->
             IF store[i].lowered = lower(key)
             THEN [lowered |-> lower(key), key |-> key, value |-> value]
             ELSE store[i]]
    ELSE Append(store, [lowered |-> lower(key), key |-> key, value |-> value])

\* self._store.get(key.lower()): the pair, or <<>> for None
_store_get(store, lowered) ==
    IF \E i \in DOMAIN store : store[i].lowered = lowered
    THEN LET i == CHOOSE j \in DOMAIN store : store[j].lowered = lowered
         IN  <<store[i].key, store[i].value>>
    ELSE <<>>

\* __setitem__ as it would be if it kept the casing of the latest assignment
__setitem___latest_casing(store, key, value) ==
    super__setitem__(store, key, Kept(value))

\* HeadersDict.__setitem__, when value[0] exists
__setitem__(store, key, value) ==
    LET v == Kept(value)
        old == _store_get(store, lower(key))
        k == IF old # <<>> THEN old[1] ELSE key
    IN  super__setitem__(store, k, v)

\* headers[key] = value: value[0] of an empty list or tuple raises IndexError
\* before anything is stored
SetItem(key, value) ==
    /\ Len(headers.calls) < MaxAssignments
    /\ IF IndexError(value)
       THEN headers' = [headers EXCEPT
                           !.calls = Append(@, [key |-> key, value |-> value,
                                                raised |-> TRUE])]
       ELSE headers' = [_store |-> __setitem__(headers._store, key, value),
                        calls |-> Append(headers.calls,
                                         [key |-> key, value |-> value,
                                          raised |-> FALSE])]
    /\ UNCHANGED <<kwargs, file, nrequests, blockvars, ctxvars, modules, document>>

HeadersStart ==
    /\ headers = HeadersInit
    /\ modules = [nbuilds |-> 0]
    /\ document = [state |-> "none"]
    /\ kwargs \in {k \in Kwargs :
                      /\ k.record_mode = ONCE
                      /\ ~k.allow_playback_repeats
                      /\ ~k.drop_unused_requests
                      /\ k.before_record_request = "identity"
                      /\ k.record_on_exception}
    /\ file = MissingFile
    /\ nrequests = 0
    /\ BlockIdle
    /\ CtxIdle

HeadersNext == \E key \in HeaderNames, value \in AssignedValues : SetItem(key, value)

HeadersSpec == HeadersStart /\ [][HeadersNext]_vars

\* the assignments that returned, and those among them to the name of key
Assigned == SelectSeq(headers.calls, LAMBDA c : ~c.raised)
AssignedTo(lowered) == SelectSeq(Assigned, LAMBDA c : lower(c.key) = lowered)

(***************************************************************************)
(* C25: a HeadersDict holds one entry for every header name that was       *)
(* assigned, whatever the casings used; its key is the key of the first    *)
(* assignment to that name and its value the value of the latest one, the  *)
(* first element when that was a list or tuple.                            *)
(***************************************************************************)
C25_OneEntryFirstCasing ==
    \A n \in {lower(k) : k \in HeaderNames} :
        LET entries == SelectSeq(headers._store,
                                 LAMBDA e : lower(e.key) = n \/ e.lowered = n)
            calls == AssignedTo(n)
        IN  /\ Len(entries) = (IF calls = <<>> THEN 0 ELSE 1)
            /\ calls # <<>> =>
                  /\ entries[1].key = calls[1].key
                  /\ entries[1].value =
                        (LET last == calls[Len(calls)].value
                         IN  IF last.type = "str" THEN last.scalar ELSE last.items[1])

\* Content-Type was set, then set again in another casing with a list
C25_Witness ==
    /\ Len(Assigned) = 3
    /\ Assigned[1].key = "Content-Type" /\ Assigned[1].value.scalar = "a"
    /\ Assigned[2].key = "Accept"
    /\ Assigned[3].key = "CONTENT-TYPE" /\ Assigned[3].value.items = <<"b">>
    /\ Assigned[3].value.type = "list"
    /\ Len(headers._store) = 2


(***************************************************************************)
(* The Cassette's public operations called directly on one Cassette        *)
(* object (cassettes[1]), constructed with any of the filters.             *)
(***************************************************************************)
\* number of operations called on the cassette after its construction
MaxOps == 2

\* the keyword arguments of Cassette(**kwargs)
ApiKwargs ==
    [record_mode : RecordMode,
     allow_playback_repeats : BOOLEAN,
     drop_unused_requests : {FALSE},
     before_record_request : RequestFilters,
     before_record_response : ResponseFilters,
     record_on_exception : {TRUE}]

\* the files at the path: none, an undecodable one, or recordings of any of
\* the requests, each with the chunked response
ApiFiles ==
    {MissingFile, CorruptFile}
    \cup {save_cassette(d) :
             d \in SeqsUpTo([request : Requests,
                             response : {resp \in ResponseRecords : resp.te}],
                            MaxFile)}

\* Cassette.__init__: the object exists, nothing was read from the path
ApiInit ==
    /\ kwargs \in ApiKwargs
    /\ file \in ApiFiles
    /\ nrequests = 0
    /\ cassettes = [i \in ScopeIds |->
                       IF i = 1
                       THEN CassetteInit(kwargs.record_mode, kwargs.allow_playback_repeats,
                                         kwargs.drop_unused_requests,
                                         kwargs.before_record_request,
                                         kwargs.before_record_response)
                       ELSE NoCassette]
    /\ nscopes = 0
    /\ current_cassette = 0
    /\ cm = CmInit
    /\ scope = "out"
    /\ conn = ConnInit
    /\ result = NoResult
    /\ log = <<>>
    /\ prevLog = <<>>
    /\ CtxIdle
    /\ LibIdle

\* what an operation leaves alone beside the cassette and its result
ApiFrame ==
    UNCHANGED <<kwargs, file, nscopes, current_cassette, cm, scope, conn, log,
                prevLog, ctxvars, libvars>>

\* Cassette._load, as Cassette.load calls it right after the construction
ApiLoad ==
    /\ nrequests = 0
    /\ result = NoResult
    /\ cassettes' = [cassettes EXCEPT ![1] = _load(@, file)]
    /\ result' = [kind |-> "loaded", response |-> NoResponse]
    /\ UNCHANGED nrequests
    /\ ApiFrame

\* cassette.append(r, resp); the result keeps the caller's response object
ApiAppend(r, resp) ==
    /\ nrequests < MaxOps
    /\ nrequests' = nrequests + 1
    /\ cassettes' = [cassettes EXCEPT ![1] = append(@, r, resp)]
    /\ result' = [kind |-> "appended", response |-> resp, request |-> r]
    /\ ApiFrame

\* the caller changes the response it appended (VCRHTTPResponse deletes the
\* Transfer-Encoding header of the record it is built from)
ApiMutate ==
    /\ result.kind = "appended"
    /\ result.response.te
    /\ result' = [result EXCEPT !.kind = "mutated", !.response.te = FALSE]
    /\ UNCHANGED <<cassettes, nrequests>>
    /\ ApiFrame

\* cassette.can_play_response_for(r)
ApiCanPlay(r) ==
    /\ nrequests < MaxOps
    /\ nrequests' = nrequests + 1
    /\ result' = [kind |-> "can_play", response |-> NoResponse, request |-> r,
                  value |-> can_play_response_for(cassettes[1], r)]
    /\ UNCHANGED cassettes
    /\ ApiFrame

\* cassette.play_response(r): the response of the first eligible match, or
\* UnhandledHTTPRequestError when the loop ends without one
ApiPlay(r) ==
    /\ nrequests < MaxOps
    /\ nrequests' = nrequests + 1
    /\ IF Eligible(cassettes[1], r) # <<>>
       THEN /\ cassettes' = [cassettes EXCEPT ![1] = play_response(@, r)]
            /\ result' = [kind |-> "played", request |-> r,
                          response |-> cassettes[1].data[play_index(cassettes[1], r)].response]
       ELSE /\ result' = [kind |-> "UnhandledHTTPRequestError", request |-> r,
                          response |-> NoResponse]
            /\ UNCHANGED cassettes
    /\ ApiFrame

\* cassette.rewind()
ApiRewind ==
    /\ nrequests < MaxOps
    /\ nrequests' = nrequests + 1
    /\ cassettes' = [cassettes EXCEPT ![1] = rewind(@)]
    /\ result' = [kind |-> "rewind", response |-> NoResponse]
    /\ ApiFrame

ApiNext ==
    \/ ApiLoad
    \/ \E r \in Requests, resp \in ResponseRecords : ApiAppend(r, resp)
    \/ ApiMutate
    \/ \E r \in Requests : ApiCanPlay(r)
    \/ \E r \in Requests : ApiPlay(r)
    \/ ApiRewind

ApiSpec == ApiInit /\ [][ApiNext]_vars


\* the cassette the operations are called on
Under == cassettes[1]

\* the step of an operation that left a result of kind k
ApiStep(k) == result'.kind = k /\ nrequests' = nrequests + 1

EligibleIndices(c, r) ==
    {i \in 1..Len(c.data) :
        /\ requests_match(before_record_request(c.filter, r), c.data[i].request)
        /\ Count(c, i) = 0 \/ c.allow_playback_repeats}

\* everything of a cassette but its play counts and its played log
Recording(c) == <<c.data, c.dirty, c.rewound, c.old_interactions, c.record_mode,
                  c.allow_playback_repeats, c.filter, c.response_filter>>

(***************************************************************************)
(* C27: play_response(request) succeeds exactly when an eligible match     *)
(* exists; it then adds one to the play count of the first eligible index  *)
(* and to no other, appends one entry to the played log and returns that   *)
(* index's response.  Otherwise it raises UnhandledHTTPRequestError and    *)
(* the cassette is as before.                                              *)
(***************************************************************************)
C27_PlayResponse ==
    [][/\ ApiStep("played") =>
             LET eligible == EligibleIndices(Under, result'.request)
                 after == cassettes'[1]
             IN  /\ eligible # {}
                 /\ LET first == CHOOSE i \in eligible : \A j \in eligible : i <= j
                    IN  /\ \A i \in 1..Len(Under.data) :
                              Count(after, i) = Count(Under, i) + (IF i = first THEN 1 ELSE 0)
                        /\ DOMAIN after.play_counts \subseteq 1..Len(Under.data)
                        /\ result'.response = Under.data[first].response
                 /\ Len(after.played_interactions) = Len(Under.played_interactions) + 1
                 /\ SubSeq(after.played_interactions, 1, Len(Under.played_interactions))
                       = Under.played_interactions
                 /\ Recording(after) = Recording(Under)
                 /\ file' = file
       /\ ApiStep("UnhandledHTTPRequestError") =>
             /\ EligibleIndices(Under, result'.request) = {}
             /\ cassettes' = cassettes
             /\ file' = file]_vars

\* the first match had been played, so the second one was played
C27_Witness ==
    /\ result.kind = "played"
    /\ ~Under.allow_playback_repeats
    /\ Len(Under.data) = 2
    /\ DOMAIN Under.play_counts = {1, 2}
    /\ Len(Under.played_interactions) = 2


(***************************************************************************)
(* C28: append(request, response) changes nothing when the request filter  *)
(* or the response filter returns None; otherwise it adds the filtered     *)
(* pair at the end of data and sets dirty, and touches no play count.  The *)
(* stored response is a copy: the caller changing its response afterwards  *)
(* changes no stored record.                                               *)
(***************************************************************************)
C28_Append ==
    [][/\ ApiStep("appended") =>
             LET after == cassettes'[1]
                 filtered == before_record_request(Under.filter, result'.request)
                 stored == before_record_response(Under.response_filter, result'.response)
             IN  /\ (filtered = None \/ stored = NoResponse) => after = Under
                 /\ (filtered # None /\ stored # NoResponse) =>
                       /\ after.data = Append(Under.data, [request |-> filtered,
                                                           response |-> stored])
                       /\ after.dirty
                       /\ after.play_counts = Under.play_counts
                       /\ after.played_interactions = Under.played_interactions
                       /\ after.old_interactions = Under.old_interactions
                       /\ after.rewound = Under.rewound
                 /\ file' = file
       /\ (result'.kind = "mutated" /\ result.kind = "appended") =>
             /\ result'.response # result.response
             /\ cassettes' = cassettes]_vars

\* a chunked response was stored with a redacted body and then changed by
\* the caller: the stored record still holds the header
C28_Witness ==
    /\ result.kind = "mutated"
    /\ ~result.response.te
    /\ Under.response_filter = "redact"
    /\ Len(Under.data) = 1
    /\ Under.data[1].response = [code |-> 200, te |-> TRUE, body |-> "x"]
    /\ Under.dirty


\* the step of Cassette._load on a file that can be decoded
LoadStep == result.kind = "none" /\ result'.kind = "loaded" /\ file.status = "ok"

(***************************************************************************)
(* C29: loading a decodable file of N pairs gives a cassette of length N   *)
(* whose stored pairs are the file's pairs in order, _old_interactions     *)
(* equal to the stored pairs, dirty false, rewound true and no play count, *)
(* whatever the filters are.                                               *)
(***************************************************************************)
C29_LoadYieldsFile ==
    [][LoadStep =>
          LET after == cassettes'[1]
          IN  /\ len(after) = Len(file.data)
              /\ after.data = file.data
              /\ after.old_interactions = after.data
              /\ ~after.dirty
              /\ after.rewound
              /\ play_count(after) = 0]_vars


(***************************************************************************)
(* C30: len(cassette) is the number of stored pairs, play_count is the sum *)
(* of the play counts of the stored indices, and all_played holds exactly  *)
(* when every stored index was played at least once.                       *)
(***************************************************************************)
C30_Counters ==
    LET RECURSIVE SumTo(_)
        SumTo(n) == IF n = 0 THEN 0 ELSE Count(Under, n) + SumTo(n - 1)
    IN  /\ len(Under) = Cardinality(DOMAIN Under.data)
        /\ play_count(Under) = SumTo(Len(Under.data))
        /\ all_played(Under) = (\A i \in 1..Len(Under.data) : Count(Under, i) >= 1)

\* every stored pair had been played, then a pair was appended
C30_Witness ==
    /\ result.kind = "appended"
    /\ Len(Under.data) = 2
    /\ Count(Under, 1) = 1
    /\ Count(Under, 2) = 0
    /\ ~all_played(Under)
    /\ play_count(Under) = 1


(***************************************************************************)
(* C31: rewind() leaves no play count above zero and leaves data, dirty    *)
(* and rewound as they were; afterwards play_count is 0 and every stored   *)
(* interaction is eligible again for the requests that match it.           *)
(***************************************************************************)
C31_Rewind ==
    [][ApiStep("rewind") =>
          LET after == cassettes'[1]
          IN  /\ \A i \in 1..Len(Under.data) : Count(after, i) = 0
              /\ after.data = Under.data
              /\ after.dirty = Under.dirty
              /\ after.rewound = Under.rewound
              /\ play_count(after) = 0
              /\ \A i \in 1..Len(after.data), r \in Requests :
                    requests_match(before_record_request(after.filter, r),
                                   after.data[i].request)
                       => i \in EligibleIndices(after, r)
              /\ file' = file]_vars

\* the second of two stored interactions had been played, without repeats,
\* before the rewind
C31_Witness ==
    /\ result.kind = "rewind"
    /\ ~Under.allow_playback_repeats
    /\ Len(Under.data) = 2
    /\ Len(Under.played_interactions) = 1
    /\ Under.played_interactions[1].index = 2
    /\ Under.play_counts = [i \in {} |-> 0]


(***************************************************************************)
(* The similarity search of the cassette: every stored request is scored   *)
(* by the configured matchers that succeed against the filtered request.   *)
(***************************************************************************)

\* the most interactions a cassette stores in the similarity search
MaxStored == 3

\* requests that differ in method, path and query
SimRequests == [method : {"GET", "POST"}, uri : Uris]

\* the part of a URI before the query
path_of(u) == IF u = "/a?k=s" THEN "/a" ELSE u

\* the attribute of a request that the matcher of a name compares
matched_attribute(name, r) ==
    CASE name = "method" -> r.method
      [] name = "uri" -> r.uri
      [] name = "path" -> path_of(r.uri)

\* the ordered matcher lists a cassette is configured with; the first one
\* is the constructor's default
MatchOns == {<<"uri", "method">>, <<"method", "path", "uri">>, <<"path">>}

\* matchers.get_matchers_results: the names of the matchers that succeed,
\* and the (name, message) pairs of those that fail, both in configured order
get_matchers_results(r1, r2, matchers) ==
    LET agree(name) == matched_attribute(name, r1) = matched_attribute(name, r2)
        message(name) == <<matched_attribute(name, r1), "!=", matched_attribute(name, r2)>>
        RECURSIVE Successes(_)
        Successes(k) == IF k > Len(matchers) THEN <<>>
                        ELSE (IF agree(matchers[k]) THEN <<matchers[k]>> ELSE <<>>)
                             \o Successes(k + 1)
        RECURSIVE Fails(_)
        Fails(k) == IF k > Len(matchers) THEN <<>>
                    ELSE (IF agree(matchers[k]) THEN <<>>
                          ELSE << <<matchers[k], message(matchers[k])>> >>)
                         \o Fails(k + 1)
    IN  [successes |-> Successes(1), fails |-> Fails(1)]

\* list.sort(key=lambda t: t[0], reverse=True): stable, highest score first
RECURSIVE sort_by_score(_)
sort_by_score(matches) ==
    IF matches = <<>> THEN <<>>
    ELSE LET sorted == sort_by_score(SubSeq(matches, 1, Len(matches) - 1))
             last == matches[Len(matches)]
             ahead == Cardinality({k \in 1..Len(sorted) : sorted[k].nb_success >= last.nb_success})
         IN  SubSeq(sorted, 1, ahead) \o <<last>> \o SubSeq(sorted, ahead + 1, Len(sorted))

\* the scored list of Cassette.find_requests_with_most_matches, before the sort
best_matches(c, r) ==
    LET filtered == before_record_request(c.filter, r)
    IN  [i \in 1..Len(c.data) |->
            LET results == get_matchers_results(filtered, c.data[i].request, c._match_on)
            IN  [nb_success |-> Len(results.successes),
                 request |-> c.data[i].request,
                 successes |-> results.successes,
                 fails |-> results.fails]]

\* the search as it would be if it kept every request with a success
find_requests_with_any_match(c, r) ==
    LET sorted == sort_by_score(best_matches(c, r))
        kept == SelectSeq(sorted, LAMBDA m : m.nb_success >= 1)
    IN  [k \in 1..Len(kept) |-> <<kept[k].request, kept[k].successes, kept[k].fails>>]

\* Cassette.find_requests_with_most_matches: the loop over the sorted list
\* stops at the first score below 1 or different from the first score
find_requests_with_most_matches(c, r) ==
    LET sorted == sort_by_score(best_matches(c, r))
        RECURSIVE Loop(_)
        Loop(k) == IF k > Len(sorted) THEN <<>>
                   ELSE IF sorted[k].nb_success < 1
                           \/ sorted[1].nb_success # sorted[k].nb_success
                        THEN <<>>
                        ELSE << <<sorted[k].request, sorted[k].successes, sorted[k].fails>> >>
                             \o Loop(k + 1)
    IN  Loop(1)

SimilarityInit ==
    /\ kwargs \in [record_mode : {NONE}, allow_playback_repeats : {FALSE},
                   drop_unused_requests : {FALSE}, match_on : MatchOns,
                   before_record_request : RequestFilters,
                   before_record_response : {"identity"}, record_on_exception : {TRUE}]
    /\ file = MissingFile
    /\ cassettes = [i \in 1..MaxScopes |->
                      IF i = 1
                      THEN CassetteInit(kwargs.record_mode, kwargs.allow_playback_repeats,
                                        kwargs.drop_unused_requests,
                                        kwargs.before_record_request,
                                        kwargs.before_record_response)
                           @@ [_match_on |-> kwargs.match_on]
                      ELSE NoCassette]
    /\ nscopes = 1
    /\ nrequests = 0
    /\ current_cassette = 0
    /\ cm = CmInit
    /\ scope = "out"
    /\ conn = ConnInit
    /\ result = NoResult
    /\ log = <<>>
    /\ prevLog = <<>>
    /\ CtxIdle
    /\ LibIdle

\* cassette.append(r, response) while the cassette is being filled
SimilarityAppend(r) ==
    /\ len(cassettes[1]) < MaxStored
    /\ before_record_request(cassettes[1].filter, r) # None
    /\ cassettes' = [cassettes EXCEPT ![1] =
                        append(@, r, [code |-> 200, te |-> FALSE, body |-> "x"])]
    /\ result' = NoResult
    /\ UNCHANGED nrequests
    /\ ApiFrame

\* the write-protection error asks for the requests most similar to the one
\* that failed; its raisers hand over requests that the filter keeps
FindRequestsWithMostMatches(r) ==
    /\ filter_request(cassettes[1], r) # None
    /\ result' = [kind |-> "most_matches", response |-> NoResponse, request |-> r,
                  value |-> find_requests_with_most_matches(cassettes[1], r)]
    /\ UNCHANGED <<cassettes, nrequests>>
    /\ ApiFrame

SimilarityNext ==
    \/ \E r \in SimRequests : SimilarityAppend(r)
    \/ \E r \in SimRequests : FindRequestsWithMostMatches(r)

SimilaritySpec == SimilarityInit /\ [][SimilarityNext]_vars


\* the number of configured matchers under which the filtered r and the
\* stored request i agree
Score(c, r, i) ==
    Cardinality({k \in 1..Len(c._match_on) :
                    matched_attribute(c._match_on[k], before_record_request(c.filter, r))
                       = matched_attribute(c._match_on[k], c.data[i].request)})

\* the highest score of a stored request, 0 for an empty cassette
MaxScore(c, r) ==
    IF c.data = <<>> THEN 0
    ELSE CHOOSE n \in 0..Len(c._match_on) :
            /\ \E i \in 1..Len(c.data) : Score(c, r, i) = n
            /\ \A i \in 1..Len(c.data) : Score(c, r, i) <= n

(***************************************************************************)
(* C32: find_requests_with_most_matches(request) returns the stored        *)
(* requests whose number of succeeding matchers is the maximum over the    *)
(* stored requests, when that maximum is at least 1, in storage order,     *)
(* each with the names of its succeeded matchers and the (name, message)   *)
(* pairs of its failed ones; it returns an empty list when the cassette is *)
(* empty or the maximum is 0, and it changes no state of the cassette.     *)
(***************************************************************************)
C32_MostMatches ==
    [][result'.kind = "most_matches" =>
          \A r \in {result'.request}, value \in {result'.value} :
          \A filtered \in {before_record_request(Under.filter, r)},
             top \in {MaxScore(Under, r)} :
          \A Best \in {{i \in 1..Len(Under.data) : Score(Under, r, i) = top /\ top >= 1}} :
              /\ Len(value) = Cardinality(Best)
              /\ \A k \in 1..Len(value) :
                    \* the k-th smallest index of Best
                    \A nth \in {i \in Best : Cardinality({j \in Best : j < i}) = k - 1} :
                    \A stored \in {Under.data[nth].request} :
                    \A Agreeing \in {{n \in 1..Len(Under._match_on) :
                                        matched_attribute(Under._match_on[n], filtered)
                                           = matched_attribute(Under._match_on[n], stored)}} :
                        /\ value[k][1] = stored
                        /\ {value[k][2][n] : n \in 1..Len(value[k][2])}
                              = {Under._match_on[n] : n \in Agreeing}
                        /\ {value[k][3][n][1] : n \in 1..Len(value[k][3])}
                              = {Under._match_on[n] : n \in (1..Len(Under._match_on)) \ Agreeing}
                        /\ Len(value[k][2]) + Len(value[k][3]) = Len(Under._match_on)
              /\ (Under.data = <<>> \/ top = 0) => value = <<>>
              /\ cassettes' = cassettes
              /\ file' = file]_vars

\* the second and third of three stored requests tie for the best score,
\* each with one failed matcher, and the first one scores lower
C32_Witness ==
    /\ result.kind = "most_matches"
    /\ Len(Under.data) = 3
    /\ Len(result.value) = 2
    /\ result.value[1][1] = Under.data[2].request
    /\ result.value[2][1] = Under.data[3].request
    /\ Under.data[2].request # Under.data[3].request
    /\ Len(result.value[1][3]) = 1
    /\ Score(Under, result.request, 1) = 1


(***************************************************************************)
(* C39: a getresponse that replays a stored interaction (play_response,    *)
(* then the construction of the synthesized response) leaves the stored    *)
(* requests and responses of the cassette as they were, so a later save    *)
(* would write for that interaction what it would have written before.     *)
(***************************************************************************)
C39_ReplayKeepsStored ==
    [][(GetResponseStep /\ result'.kind = "played") =>
          /\ cassettes'[current_cassette].data = cassettes[current_cassette].data
          /\ _as_dict(cassettes'[current_cassette])
                = _as_dict(cassettes[current_cassette])]_vars


(***************************************************************************)
(* One intercepted connection that the caller keeps across scopes: the     *)
(* current cassette may differ from one call on the connection to the next.*)
(***************************************************************************)

\* the most request cycles the caller starts on the connection
MaxCycles == 2

\* the cassette objects that scopes make current while the connection lives:
\* one of the configured record mode and one that records everything
ConnCassettes == {1, 2}

ConnKwargs ==
    [record_mode : RecordMode,
     allow_playback_repeats : {FALSE},
     drop_unused_requests : {FALSE},
     before_record_request : RequestFilters \cup {"strip"},
     before_record_response : ResponseFilters,
     record_on_exception : {TRUE}]

\* what the server answers: a chunked response
ServerResponses == {[code |-> 200, te |-> TRUE, body |-> "y"]}

\* the path holds no file, or a file of one interaction
ConnFiles ==
    {MissingFile}
    \cup {save_cassette(<<[request |-> r, response |-> resp]>>) :
              r \in Requests, resp \in ServerResponses}

\* a connection that was just constructed: no _vcr_request attribute, the
\* real connection idle
ConnStart == [phase |-> "idle", issued |-> None, via |-> "none",
              vcr_request |-> None, real_state |-> "idle"]

ConnInit2 ==
    /\ kwargs \in ConnKwargs
    /\ file \in ConnFiles
    /\ cassettes = [i \in ScopeIds |->
                       IF i = 1 THEN load(kwargs, file)
                       ELSE IF i = 2 THEN load([kwargs EXCEPT !.record_mode = ALL], file)
                       ELSE NoCassette]
    /\ nscopes = 2
    /\ current_cassette = 0
    /\ cm = CmInit
    /\ scope = "out"
    /\ conn = ConnStart
    /\ nrequests = 0
    /\ result = NoResult
    /\ log = <<>>
    /\ prevLog = <<>>
    /\ CtxIdle
    /\ LibIdle

\* what a call on the connection leaves alone
ConnFrame ==
    UNCHANGED <<kwargs, file, nscopes, cm, scope, prevLog, ctxvars, libvars>>

\* a scope is entered or left between two calls on the connection: another
\* cassette, or none, is current
ConnSetCurrent(id) ==
    /\ id # current_cassette
    /\ current_cassette' = id
    /\ result' = NoResult
    /\ UNCHANGED <<cassettes, conn, nrequests, log>>
    /\ ConnFrame

\* real_connection.request / putrequest: the real connection starts a request
\* only when it is idle, and raises CannotSendRequest otherwise
RealStarts == conn.real_state = "idle"

\* VCRConnection.request(method, url) under _with_cassette
ConnRequest(r) ==
    /\ conn.phase = "idle"
    /\ nrequests < MaxCycles
    /\ nrequests' = nrequests + 1
    /\ LET stashed == IF Intercepting THEN r ELSE conn.vcr_request
           sends == ~Intercepting \/ cassettes[current_cassette].record_mode = ALL
       IN  IF sends /\ ~RealStarts
           THEN /\ conn' = [conn EXCEPT !.phase = "idle", !.issued = r, !.via = "request",
                                        !.vcr_request = stashed]
                /\ result' = [kind |-> "CannotSendRequest", response |-> NoResponse]
                /\ log' = <<>>
           ELSE /\ conn' = [conn EXCEPT !.phase = "requested", !.issued = r,
                                        !.via = "request", !.vcr_request = stashed,
                                        !.real_state = IF sends THEN "sent" ELSE @]
                /\ result' = [kind |-> "requested", response |-> NoResponse]
                /\ log' = IF sends THEN <<"request">> ELSE <<>>
    /\ UNCHANGED <<cassettes, current_cassette>>
    /\ ConnFrame

\* VCRConnection.putrequest(method, url) under _with_cassette: the test of
\* self._vcr_request reads an attribute that only request() and putrequest()
\* set, and that the real connection does not have either before that
ConnPutRequest(r) ==
    /\ conn.phase = "idle"
    /\ nrequests < MaxCycles
    /\ nrequests' = nrequests + 1
    /\ LET sends == ~Intercepting \/ cassettes[current_cassette].record_mode = ALL
       IN  IF Intercepting /\ conn.vcr_request = None
           THEN /\ conn' = [conn EXCEPT !.phase = "idle", !.issued = r, !.via = "putrequest"]
                /\ result' = [kind |-> "AttributeError", response |-> NoResponse]
                /\ log' = <<>>
           ELSE IF sends /\ ~RealStarts
           THEN /\ conn' = [conn EXCEPT !.phase = "idle", !.issued = r, !.via = "putrequest"]
                /\ result' = [kind |-> "CannotSendRequest", response |-> NoResponse]
                /\ log' = <<>>
           ELSE /\ conn' = [conn EXCEPT !.phase = "building", !.issued = r,
                                        !.via = "putrequest",
                                        !.real_state = IF sends THEN "started" ELSE @]
                /\ result' = [kind |-> "building", response |-> NoResponse]
                /\ log' = IF sends THEN <<"putrequest">> ELSE <<>>
    /\ UNCHANGED <<cassettes, current_cassette>>
    /\ ConnFrame

\* VCRConnection.endheaders() under _with_cassette, without a message body;
\* the real endheaders raises CannotSendHeader unless a request was started
ConnEndHeaders ==
    /\ conn.phase = "building"
    /\ LET sends == ~Intercepting \/ cassettes[current_cassette].record_mode = ALL
       IN  IF sends /\ conn.real_state # "started"
           THEN /\ conn' = [conn EXCEPT !.phase = "idle"]
                /\ result' = [kind |-> "CannotSendHeader", response |-> NoResponse]
                /\ UNCHANGED log
           ELSE /\ conn' = [conn EXCEPT !.phase = "requested",
                                        !.real_state = IF sends THEN "sent" ELSE @]
                /\ result' = [kind |-> "headers", response |-> NoResponse]
                /\ log' = IF sends THEN Append(log, "endheaders") ELSE log
    /\ UNCHANGED <<cassettes, current_cassette, nrequests>>
    /\ ConnFrame

\* the response object of a live miss: VCRHTTPResponse(response), built from
\* the record that getresponse assembled and handed to append
LiveResponse_of_chunked_record(record) == record

LiveResponse(record) == VCRHTTPResponse(record)

\* VCRConnection.getresponse under _with_cassette; resp is what the server
\* answers when the real getresponse is called on a sent request
ConnGetResponse(resp) ==
    /\ conn.phase = "requested"
    /\ LET c == cassettes[current_cassette]
           raises(kind) ==
               /\ result' = [kind |-> kind, response |-> NoResponse]
               /\ conn' = [conn EXCEPT !.phase = "idle"]
               /\ UNCHANGED <<cassettes, log>>
       IN  IF ~Intercepting
           THEN IF conn.real_state # "sent"
                THEN raises("ResponseNotReady")
                ELSE /\ result' = [kind |-> "passthrough", response |-> resp]
                     /\ conn' = [conn EXCEPT !.phase = "idle", !.real_state = "idle"]
                     /\ log' = Append(log, "getresponse")
                     /\ UNCHANGED cassettes
           ELSE IF conn.vcr_request = None
           THEN raises("AttributeError")
           ELSE IF can_play_response_for(c, conn.vcr_request)
           THEN IF Eligible(c, conn.vcr_request) = <<>>
                THEN raises("UnhandledHTTPRequestError")
                ELSE LET index == play_index(c, conn.vcr_request)
                     IN  /\ cassettes' = [cassettes EXCEPT ![current_cassette] =
                                             [play_response(c, conn.vcr_request)
                                                 EXCEPT !.data[index].response.te = FALSE]]
                         /\ result' = [kind |-> "played", index |-> index,
                                       response |-> VCRHTTPResponse(c.data[index].response)]
                         /\ conn' = [conn EXCEPT !.phase = "idle"]
                         /\ UNCHANGED log
           ELSE IF write_protected(c) /\ filter_request(c, conn.vcr_request) # None
           THEN raises("CannotOverwriteExistingCassetteException")
           ELSE LET sends == c.record_mode # ALL
                IN  IF sends /\ ~RealStarts
                    THEN raises("CannotSendRequest")
                    ELSE IF ~sends /\ conn.real_state # "sent"
                    THEN raises("ResponseNotReady")
                    ELSE /\ cassettes' = [cassettes EXCEPT ![current_cassette] =
                                             append(c, conn.vcr_request, resp)]
                         /\ result' = [kind |-> "live", served |-> resp,
                                       response |-> LiveResponse(resp)]
                         /\ conn' = [conn EXCEPT !.phase = "idle", !.real_state = "idle"]
                         /\ log' = (IF sends THEN Append(log, "request") ELSE log)
                                   \o <<"getresponse">>
    /\ UNCHANGED <<current_cassette, nrequests>>
    /\ ConnFrame

\* VCRConnection.connect under _with_cassette; real tells whether the real
\* connection's connect was called
ConnConnect ==
    /\ LET c == cassettes[current_cassette]
           real == IF ~Intercepting THEN TRUE
                   ELSE IF conn.vcr_request # None
                           /\ can_play_response_for(c, conn.vcr_request)
                        THEN FALSE
                   ELSE IF write_protected(c) THEN FALSE
                   ELSE TRUE
       IN  result' = [kind |-> "connect", response |-> NoResponse, real |-> real]
    /\ UNCHANGED <<cassettes, current_cassette, conn, nrequests, log>>
    /\ ConnFrame

ConnNext ==
    \/ \E id \in {0} \cup ConnCassettes : ConnSetCurrent(id)
    \/ \E r \in Requests : ConnRequest(r)
    \/ \E r \in Requests : ConnPutRequest(r)
    \/ ConnEndHeaders
    \/ \E resp \in ServerResponses : ConnGetResponse(resp)
    \/ ConnConnect

ConnSpec == ConnInit2 /\ [][ConnNext]_vars


\* the step of a call that starts a request on the connection
StartStep == nrequests' = nrequests + 1 /\ conn'.via \in {"request", "putrequest"}

\* the step of a getresponse call on the connection
ConnGetResponseStep == conn.phase = "requested" /\ conn'.phase = "idle"

(***************************************************************************)
(* C33: with a cassette active (and intercepting), after each call of      *)
(* putrequest(method, url) or request(method, url) the pending request of  *)
(* the connection carries the method and URI of that call, also when the   *)
(* connection served an earlier request/getresponse cycle.                 *)
(***************************************************************************)
C33_PendingIsLatest ==
    [][(StartStep /\ Intercepting) => conn'.vcr_request = conn'.issued]_vars


\* the getresponse step that returned a live response and stored a record
LiveStoredStep ==
    /\ ConnGetResponseStep
    /\ result'.kind = "live"
    /\ Len(cassettes'[current_cassette].data) = Len(cassettes[current_cassette].data) + 1

\* the response record at the end of the current cassette's data
LastStored(cs) == cs[current_cassette].data[Len(cs[current_cassette].data)].response

(***************************************************************************)
(* C34 as stated: on a live miss the response returned by getresponse is   *)
(* built from the record that the cassette stores for the request, for     *)
(* every before-record-response filter, so a replay of the stored record   *)
(* gives a response equal to the live one.                                 *)
(***************************************************************************)
C34_LiveFromStoredRecord ==
    [][LiveStoredStep => VCRHTTPResponse(LastStored(cassettes')) = result'.response]_vars

(***************************************************************************)
(* C34 amended: on a live miss the response returned by getresponse is     *)
(* built from the record handed to append, and the cassette stores the     *)
(* output of the before-record-response filter on it; when the filter      *)
(* returns the record unchanged, a replay of the stored record gives a     *)
(* response equal to the live one.                                         *)
(***************************************************************************)
C34_LiveFromHandedRecord ==
    [][LiveStoredStep =>
          LET c == cassettes[current_cassette]
              filtered == before_record_response(c.response_filter, result'.served)
          IN  /\ result'.response.code = result'.served.code
              /\ result'.response.body = result'.served.body
              /\ LastStored(cassettes') = filtered
              /\ filtered = result'.served =>
                    VCRHTTPResponse(LastStored(cassettes')) = result'.response]_vars

\* a chunked response was returned live and stored as it came
C34_Witness ==
    /\ result.kind = "live"
    /\ current_cassette # 0
    /\ cassettes[current_cassette].response_filter = "identity"
    /\ cassettes[current_cassette].dirty
    /\ LastStored(cassettes).te
    /\ ~result.response.te
    /\ result.response.body = LastStored(cassettes).body


(***************************************************************************)
(* C35: connect() with a cassette active opens no real connection when    *)
(* the cassette can play a response for the pending request or is          *)
(* write-protected, and calls the real connect in every other case.        *)
(***************************************************************************)
C35_ConnectDecision ==
    [][(result'.kind = "connect" /\ current_cassette # 0) =>
          LET c == cassettes[current_cassette]
              plays == /\ conn.vcr_request # None
                       /\ can_play_response_for(c, conn.vcr_request)
          IN  result'.real = ~(plays \/ write_protected(c))]_vars


(***************************************************************************)
(* C37: in every cycle of request and getresponse that returns a live      *)
(* response, the request is sent on the real connection exactly once, and  *)
(* before the real getresponse, also when the current cassette at          *)
(* getresponse is not the one that was current at request.                 *)
(***************************************************************************)
C37_SentOnceBeforeResponse ==
    [][(ConnGetResponseStep /\ conn.via = "request" /\ result'.kind = "live") =>
          log' = <<"request", "getresponse">>]_vars


(***************************************************************************)
(* C40: when can_play_response_for(request) is truthy, the play_response   *)
(* that follows returns a stored response, whatever the before-record-     *)
(* request filter is; UnhandledHTTPRequestError never leaves getresponse.  *)
(***************************************************************************)
C40_CanPlayThenPlays ==
    [][(/\ ConnGetResponseStep
        /\ Intercepting
        /\ conn.vcr_request # None
        /\ can_play_response_for(cassettes[current_cassette], conn.vcr_request)) =>
          result'.kind = "played"]_vars


\* the decorated callables when every __exit__ returns normally
ScopesNext ==
    \/ \E c \in Contexts : InvokeFunction(c)
    \/ \E c \in Contexts : InvokeGenerator(c)
    \/ \E c \in Contexts, i \in InvIds : Pull(c, i)
    \/ \E c \in Contexts : Yield(c)
    \/ \E c \in Contexts, exc \in BOOLEAN : Return(c, exc)
    \/ \E c \in Contexts, r \in CtxRequests : CtxRequest(c, r)
    \/ \E c \in Contexts, resp \in CtxResponses : CtxGetResponse(c, resp)

ScopesSpec == CtxInit /\ [][ScopesNext]_vars

(***************************************************************************)
(* C38: at no time is the current-cassette binding of a context a cassette *)
(* whose own scope was left, under every order of scope entries and exits  *)
(* in the context, exits out of stack order (interleaved decorated         *)
(* generators) included.                                                   *)
(***************************************************************************)
C38_BindingInOpenScope ==
    \A c \in Contexts :
       binding[c] # 0 => \E i \in Entered(invocations) : invocations[i].obj = binding[c]


(***************************************************************************)
(* The database-cursor adapter: vcr_find_one and vcr_cursor_next take the  *)
(* real operation and are meant to give the operation that replaces it.    *)
(***************************************************************************)

\* the cursor operations and what the attribute of the cursor class holds
CursorOperations == {"find_one", "next"}
RealOperation(name) == [kind |-> "real", name |-> name]
PyNone == [kind |-> "None", name |-> "None"]

\* vcr_find_one(real_find_one) / vcr_cursor_next(real_next): the function
\* body defines wrapper and ends; a function without return gives None
vcr_wrap(real_operation) == PyNone

\* the body of wrapper, were it called with a cassette or none (0) current:
\* the outcome and whether the real operation was called
wrapper(current, c, vcr_request) ==
    IF current = 0
    THEN [kind |-> "real", real_calls |-> 1]
    ELSE IF can_play_response_for(c, vcr_request)
    THEN [kind |-> "played", real_calls |-> 0]
    ELSE IF write_protected(c) /\ filter_request(c, vcr_request) # None
    THEN [kind |-> "CannotOverwriteExistingCassetteException", real_calls |-> 0]
    \* record_responses is no name of the module
    ELSE [kind |-> "NameError", real_calls |-> 1]

MongoInit ==
    /\ kwargs \in ApiKwargs
    /\ file \in ApiFiles
    /\ cassettes = [i \in ScopeIds |-> IF i = 1 THEN load(kwargs, file) ELSE NoCassette]
    /\ nscopes = 1
    /\ current_cassette \in {0, 1}
    /\ cm = CmInit
    /\ scope = "out"
    /\ conn = ConnInit
    /\ nrequests = 0
    /\ result = NoResult
    /\ log = <<>>
    /\ prevLog = <<>>
    /\ CtxIdle
    /\ modules = [nbuilds |-> 0,
                  attrs |-> [name \in CursorOperations |-> RealOperation(name)]]
    /\ headers = HeadersInit
    /\ document = [state |-> "none"]

\* what the adapter leaves alone
MongoFrame ==
    UNCHANGED <<kwargs, file, cassettes, nscopes, current_cassette, cm, scope, conn,
                nrequests, log, prevLog, ctxvars, headers, document>>

\* Cursor.<name> = vcr_find_one(Cursor.<name>), or vcr_cursor_next
MongoWrap(name) ==
    /\ modules.attrs[name].kind = "real"
    /\ modules' = [modules EXCEPT !.attrs[name] = vcr_wrap(modules.attrs[name])]
    /\ result' = [kind |-> "wrapped", response |-> NoResponse, name |-> name]
    /\ MongoFrame

\* the caller calls the cursor operation of that name with arguments r
MongoCall(name, r) ==
    /\ LET operation == modules.attrs[name]
       IN  result' =
              IF operation = PyNone
              THEN [kind |-> "TypeError", response |-> NoResponse, name |-> name,
                    request |-> r, real_calls |-> 0, wrapped |-> TRUE]
              ELSE [kind |-> "real", response |-> NoResponse, name |-> name,
                    request |-> r, real_calls |-> 1, wrapped |-> FALSE]
    /\ UNCHANGED modules
    /\ MongoFrame

MongoNext ==
    \/ \E name \in CursorOperations : MongoWrap(name)
    \/ \E name \in CursorOperations, r \in Requests : MongoCall(name, r)

MongoSpec == MongoInit /\ [][MongoNext]_vars

(***************************************************************************)
(* C36: the operation that vcr_find_one or vcr_cursor_next gives for a     *)
(* cursor operation calls the real operation and returns its result when   *)
(* no cassette is current; with a cassette current it replays a playable   *)
(* match without calling the real operation, raises the write-protection   *)
(* error without calling it when the cassette is write-protected, and      *)
(* otherwise calls it once and appends the returned document.              *)
(***************************************************************************)
C36_CursorReplacement ==
    [][(result'.kind \notin {"none", "wrapped"} /\ result'.wrapped) =>
          LET c == cassettes[1]
              r == result'.request
          IN  /\ current_cassette = 0 =>
                    result'.kind = "real" /\ result'.real_calls = 1
              /\ (current_cassette # 0 /\ can_play_response_for(c, r)) =>
                    result'.kind = "played" /\ result'.real_calls = 0
              /\ (current_cassette # 0 /\ ~can_play_response_for(c, r)
                     /\ write_protected(c) /\ filter_request(c, r) # None) =>
                    /\ result'.kind = "CannotOverwriteExistingCassetteException"
                    /\ result'.real_calls = 0
              /\ (current_cassette # 0 /\ ~can_play_response_for(c, r)
                     /\ ~(write_protected(c) /\ filter_request(c, r) # None)) =>
                    /\ result'.kind = "recorded"
                    /\ result'.real_calls = 1
                    /\ cassettes'[1] = append(c, r, result'.response)]_vars

=============================================================================
